---- MODULE Spec2Model ----
EXTENDS Integers, Sequences, FiniteSets, TLC

(***************************************************************************)
(* Tile residency engine of the sampler feedback streaming library:        *)
(* StreamingResourceBase (reference counts, pending loads, eviction delay, *)
(* min mip map) and DataUploader (UpdateList pool, submit thread, fence    *)
(* monitor thread).                                                        *)
(***************************************************************************)

\* ------------------------------------------------------------------------
\* configuration of the modelled resource and uploader
\* ------------------------------------------------------------------------
NumStandardMips == 2
NumTilesWidth == 2
NumTilesHeight == 1
NumSwapBuffers == 2
HeapSizeTiles == 2
NumStreamingBatches == 2
MaxTileCopiesPerBatch == 1

\* bounds of the exploration
MaxFrameFence == 2
MaxMappingFence == 3
MaxFeedbackValue == 3
NumAllocators == 2
MaxFreeCountWrap == 2

InvalidIndex == 0 - 1
nullptr == 0 - 1
\* the initial m_renderFenceForFeedback, above every fence value (UINT_MAX in the code)
UINT_MAX == 2147483647

m_maxMip == NumStandardMips

Pow2(n) == IF n = 0 THEN 1 ELSE IF n = 1 THEN 2 ELSE IF n = 2 THEN 4 ELSE 8
Shr(v, s) == v \div Pow2(s)
Min(a, b) == IF a < b THEN a ELSE b
Max(a, b) == IF a > b THEN a ELSE b

\* D3D12_SUBRESOURCE_TILING of mip s, as TileMappingState::Init reads it
GetWidth(s) == Shr(NumTilesWidth - 1, s) + 1
GetHeight(s) == Shr(NumTilesHeight - 1, s) + 1

\* D3D12_TILED_RESOURCE_COORDINATE { X, Y, 0, Subresource } as <<x, y, s>>
Coord(x, y, s) == <<x, y, s>>
Tiles == UNION { { Coord(x, y, s) : x \in 0 .. GetWidth(s) - 1, y \in 0 .. GetHeight(s) - 1 }
                 : s \in 0 .. NumStandardMips - 1 }
Regions == (0 .. NumTilesWidth - 1) \X (0 .. NumTilesHeight - 1)

\* tile records in the order of the three nested loops over s, y, x
TilesOfMip(s) == [ i \in 1 .. GetWidth(s) * GetHeight(s) |->
                     Coord((i - 1) % GetWidth(s), (i - 1) \div GetWidth(s), s) ]
RECURSIVE TilesFromMip(_)
TilesFromMip(s) == IF s >= NumStandardMips THEN << >>
                   ELSE TilesOfMip(s) \o TilesFromMip(s + 1)
\* regions in row-major order, the order of the loops over y, x
RegionSeq == [ i \in 1 .. NumTilesWidth * NumTilesHeight |->
                 << (i - 1) % NumTilesWidth, (i - 1) \div NumTilesWidth >> ]

Residency == { "NotResident", "Resident", "Evicting", "Loading" }
UpdateListStates == { "STATE_FREE", "STATE_ALLOCATED", "STATE_SUBMITTED",
                      "STATE_UPLOADING", "STATE_PACKED_MAPPING", "STATE_COPY_PENDING" }

VARIABLES
    m_refcounts,            \* TileMappingState: tile -> reference count
    m_resident,             \* TileMappingState: tile -> Residency
    m_heapIndices,          \* TileMappingState: tile -> heap index or InvalidIndex
    m_tileReferences,       \* region -> minimum mip referenced
    m_minMipMap,            \* region -> minimum mip resident, as copied to the residency map
    m_pendingTileLoads,     \* sequence of tiles
    m_mappings,             \* EvictionDelay: sequence of NumSwapBuffers + 1 sequences of tiles
    m_tileResidencyChanged,
    m_setZeroRefCounts,
    m_refCountsZero,
    m_queuedFeedback,       \* slot -> [m_renderFenceForFeedback, m_feedbackQueued]
    m_readbackIndex,
    m_frameFenceValue,      \* TileUpdateManager's frame fence value
    m_heapFree,             \* HeapAllocator: stack of free heap indices
    m_updateLists,          \* DataUploader: pool of UpdateLists
    m_updateListFreeCount,
    m_updateListAllocIndex,
    m_submitFlag,
    m_mappingFenceValue,    \* next value to signal on the mapping fence
    m_mappingFenceCompleted,\* m_mappingFence->GetCompletedValue()
    framesSinceAppend,      \* history: tile -> NextFrame calls since its last Append
    allocator,              \* caller of AllocateUpdateList -> its position and locals
    submitter,              \* the submit thread: its position and locals
    monitor,                \* the fence monitor thread: its position and locals
    flusher,                \* the caller of FlushCommands: its position
    m_monitorFenceFlag,
    m_mappingCommandQueue,  \* commands queued on the mapping queue, oldest first
    executed,               \* history: UpdateList -> mapping commands executed for it
    notified,               \* history: UpdateList -> notifications delivered for it
    mapper,                 \* the caller of UpdateMinMipMap: its position and locals
    packed                  \* m_packedMipStatus, m_packedMipHeapIndices, NumTilesForPackedMips
                            \* and history: packed UpdateLists submitted, true returns
                            \* of GetPackedMipsNeedTransition

vars == << m_refcounts, m_resident, m_heapIndices, m_tileReferences, m_minMipMap,
           m_pendingTileLoads, m_mappings, m_tileResidencyChanged, m_setZeroRefCounts,
           m_refCountsZero, m_queuedFeedback, m_readbackIndex, m_frameFenceValue,
           m_heapFree, m_updateLists, m_updateListFreeCount, m_updateListAllocIndex,
           m_submitFlag, m_mappingFenceValue, m_mappingFenceCompleted, framesSinceAppend,
           allocator, submitter, monitor, flusher, m_monitorFenceFlag,
           m_mappingCommandQueue, executed, notified, mapper, packed >>

residencyVars == << m_refcounts, m_resident, m_heapIndices, m_tileReferences,
                    m_pendingTileLoads, m_mappings >>
feedbackVars == << m_setZeroRefCounts, m_refCountsZero, m_queuedFeedback,
                   m_readbackIndex, m_frameFenceValue >>
uploaderVars == << m_updateLists, m_updateListFreeCount, m_updateListAllocIndex,
                   m_submitFlag, m_mappingFenceValue, m_mappingFenceCompleted >>
threadVars == << allocator, submitter, monitor, flusher, m_monitorFenceFlag,
                 m_mappingCommandQueue, executed, notified, mapper, packed >>
resourceVars == << residencyVars, m_minMipMap, m_tileResidencyChanged, feedbackVars,
                   m_heapFree, framesSinceAppend >>

\* ------------------------------------------------------------------------
\* construction
\* ------------------------------------------------------------------------
EmptyUpdateList == [ m_executionState |-> "STATE_FREE",
                     m_coords |-> << >>,
                     m_heapIndices |-> << >>,
                     m_evictCoords |-> << >>,
                     m_numPackedMips |-> 0,
                     m_mappingFenceValue |-> 0,
                     m_copyFenceValid |-> FALSE,
                     m_copyCompleted |-> FALSE ]

\* the constructor: without tiles for packed mips the status is RESIDENT at once
PackedMipsInit(numTiles) ==
    [ status |-> IF numTiles = 0 THEN "RESIDENT" ELSE "UNINITIALIZED",
      heapIndices |-> << >>,
      numTiles |-> numTiles,
      requested |-> 0,
      transitions |-> 0,
      pc |-> "idle" ]

InitState ==
    /\ m_refcounts = [ t \in Tiles |-> 0 ]
    /\ m_resident = [ t \in Tiles |-> "NotResident" ]
    /\ m_heapIndices = [ t \in Tiles |-> InvalidIndex ]
    /\ m_tileReferences = [ r \in Regions |-> m_maxMip ]
    /\ m_minMipMap = [ r \in Regions |-> m_maxMip ]
    /\ m_pendingTileLoads = << >>
    /\ m_mappings = [ i \in 1 .. NumSwapBuffers + 1 |-> << >> ]
    /\ m_tileResidencyChanged = FALSE
    /\ m_setZeroRefCounts = FALSE
    /\ m_refCountsZero = TRUE
    /\ m_queuedFeedback = [ i \in 0 .. NumSwapBuffers - 1 |->
                              [ m_renderFenceForFeedback |-> UINT_MAX,
                                m_feedbackQueued |-> FALSE ] ]
    /\ m_readbackIndex = 0
    /\ m_frameFenceValue = 0
    /\ m_heapFree = [ i \in 1 .. HeapSizeTiles |-> HeapSizeTiles - i ]
    /\ m_updateLists = [ i \in 0 .. NumStreamingBatches - 1 |-> EmptyUpdateList ]
    /\ m_updateListFreeCount = NumStreamingBatches
    /\ m_updateListAllocIndex = 0
    /\ m_submitFlag = FALSE
    /\ m_mappingFenceValue = 1
    /\ m_mappingFenceCompleted = 0
    /\ framesSinceAppend = [ t \in Tiles |-> NumSwapBuffers ]
    /\ submitter = [ pc |-> "wait", i |-> 0, signalMap |-> FALSE ]
    /\ monitor = [ pc |-> "scan", i |-> 0 ]
    /\ flusher = "idle"
    /\ m_monitorFenceFlag = FALSE
    /\ m_mappingCommandQueue = << >>
    /\ executed = [ i \in 0 .. NumStreamingBatches - 1 |-> { } ]
    /\ notified = [ i \in 0 .. NumStreamingBatches - 1 |-> { } ]
    /\ mapper = [ pc |-> "idle", tileIndex |-> 0, s |-> 0, minMip |-> 0,
                   minResidentMip |-> 0 ]

\* every caller of AllocateUpdateList is outside the function
Init ==
    /\ InitState
    /\ packed = PackedMipsInit(0)
    /\ allocator = [ a \in 1 .. NumAllocators |->
                       [ pc |-> "idle", i |-> 0, index |-> 0, pUpdateList |-> nullptr ] ]

\* ------------------------------------------------------------------------
\* EvictionDelay
\* ------------------------------------------------------------------------
\* Append: m_mappings[0].push_back(in_coord)
Append_(mappings, c) == [ mappings EXCEPT ![1] = Append(@, c) ]

\* GetReadyToEvict: m_mappings.back()
GetReadyToEvict(mappings) == mappings[Len(mappings)]

\* the loop of swaps of NextFrame, i from lastMapping down to 1
RECURSIVE NextFrameSwaps(_, _)
NextFrameSwaps(mappings, i) ==
    IF i <= 1 THEN mappings
    ELSE NextFrameSwaps([ mappings EXCEPT ![i] = mappings[i - 1], ![i - 1] = mappings[i] ],
                        i - 1)

\* a variant of NextFrame whose loop of swaps runs from 1 up to lastMapping
NextFrameSwapsUpward(mappings) ==
    [ i \in 1 .. Len(mappings) |->
        IF i = 1 THEN << >>
        ELSE IF i = Len(mappings) THEN mappings[1] \o mappings[2]
        ELSE mappings[i + 1] ]

\* a variant of NextFrame that overwrites the oldest bucket instead of inserting into it
NextFrameOverwritesOldest(mappings) ==
    [ i \in 1 .. Len(mappings) |-> IF i = 1 THEN << >> ELSE mappings[i - 1] ]

EvictionDelayNextFrame(mappings) ==
    LET swapped == NextFrameSwaps(mappings, Len(mappings))
        inserted == [ swapped EXCEPT ![Len(swapped)] = @ \o swapped[1] ]
    IN  [ inserted EXCEPT ![1] = << >> ]

\* the loop of Rescue over one bucket: j is the position of c, skippedIndex as in the code
RECURSIVE RescueLoop(_, _, _, _)
RescueLoop(evictions, j, skippedIndex, refcounts) ==
    IF j > Len(evictions)
    THEN SubSeq(evictions, skippedIndex + 1, Len(evictions))
    ELSE IF refcounts[evictions[j]] # 0
         THEN RescueLoop([ evictions EXCEPT ![j] = evictions[skippedIndex + 1] ],
                         j + 1, skippedIndex + 1, refcounts)
         ELSE RescueLoop(evictions, j + 1, skippedIndex, refcounts)

\* a variant of Rescue that drops nothing
RescueNone(mappings, refcounts) == mappings

\* a variant of Rescue that looks at the newest bucket only
RescueNewest(mappings, refcounts) ==
    [ i \in 1 .. Len(mappings) |->
        IF i = 1 THEN RescueLoop(mappings[i], 1, 0, refcounts) ELSE mappings[i] ]

Rescue(mappings, refcounts) ==
    [ i \in 1 .. Len(mappings) |-> RescueLoop(mappings[i], 1, 0, refcounts) ]

\* the tiles with an entry in some bucket
Pending(mappings) ==
    UNION { { mappings[i][j] : j \in 1 .. Len(mappings[i]) } : i \in 1 .. Len(mappings) }

\* history: the count of a tile with no entry is not kept
History(age, mappings) ==
    [ t \in Tiles |-> IF t \in Pending(mappings) THEN age[t] ELSE NumSwapBuffers ]

\* ------------------------------------------------------------------------
\* reference counts: AddTileRef, DecTileRef, SetMinMip
\* a pass state fs carries the fields a feedback pass writes
\* ------------------------------------------------------------------------
AddTileRef(fs, x, y, s) ==
    LET c == Coord(x, y, s)
    IN  [ fs EXCEPT !.loads = IF fs.refcounts[c] = 0 THEN Append(@, c) ELSE @,
                    !.refcounts[c] = @ + 1 ]

\* a variant of DecTileRef that does not queue the tile for eviction
DecTileRefNoAppend(fs, x, y, s) ==
    [ fs EXCEPT !.refcounts[Coord(x, y, s)] = @ - 1 ]

DecTileRef(fs, x, y, s) ==
    LET c == Coord(x, y, s)
    IN  [ fs EXCEPT !.mappings = IF fs.refcounts[c] = 1 THEN Append_(@, c) ELSE @,
                    !.age[c] = IF fs.refcounts[c] = 1 THEN 0 ELSE @,
                    !.refcounts[c] = @ - 1 ]

\* a variant of the incrementing loop of SetMinMip that works from the finest mip up
RECURSIVE SetMinMipAddFinestFirst(_, _, _, _, _)
SetMinMipAddFinestFirst(fs, s, x, y, in_s) ==
    IF s > in_s
    THEN SetMinMipAddFinestFirst(AddTileRef(fs, Shr(x, in_s), Shr(y, in_s), in_s),
                                 s, x, y, in_s + 1)
    ELSE fs

RECURSIVE SetMinMipAdd(_, _, _, _, _)
SetMinMipAdd(fs, s, x, y, in_s) ==
    IF s > in_s
    THEN SetMinMipAdd(AddTileRef(fs, Shr(x, s - 1), Shr(y, s - 1), s - 1), s - 1, x, y, in_s)
    ELSE fs

\* a variant of the decrementing loop of SetMinMip that releases only the coarsest tile
SetMinMipDecCoarsest(fs, s, x, y, in_s) ==
    IF s < in_s
    THEN DecTileRef(fs, Shr(x, in_s - 1), Shr(y, in_s - 1), in_s - 1)
    ELSE fs

RECURSIVE SetMinMipDec(_, _, _, _, _)
SetMinMipDec(fs, s, x, y, in_s) ==
    IF s < in_s
    THEN SetMinMipDec(DecTileRef(fs, Shr(x, s), Shr(y, s), s), s + 1, x, y, in_s)
    ELSE fs

SetMinMip(fs, in_current, in_x, in_y, in_s) ==
    IF in_current > in_s
    THEN SetMinMipAdd(fs, in_current, in_x, in_y, in_s)
    ELSE SetMinMipDec(fs, in_current, in_x, in_y, in_s)

\* ------------------------------------------------------------------------
\* AbandonPending
\* ------------------------------------------------------------------------
\* a variant of AbandonLoop that steps past the entry swapped in from the end
RECURSIVE AbandonLoopAdvance(_, _, _, _)
AbandonLoopAdvance(loads, i, numPending, refcounts) ==
    IF i >= numPending
    THEN SubSeq(loads, 1, numPending)
    ELSE IF refcounts[loads[i + 1]] # 0
         THEN AbandonLoopAdvance(loads, i + 1, numPending, refcounts)
         ELSE AbandonLoopAdvance([ loads EXCEPT ![i + 1] = loads[numPending] ],
                                 i + 1, numPending - 1, refcounts)

RECURSIVE AbandonLoop(_, _, _, _)
AbandonLoop(loads, i, numPending, refcounts) ==
    IF i >= numPending
    THEN SubSeq(loads, 1, numPending)
    ELSE IF refcounts[loads[i + 1]] # 0
         THEN AbandonLoop(loads, i + 1, numPending, refcounts)
         ELSE AbandonLoop([ loads EXCEPT ![i + 1] = loads[numPending] ],
                          i, numPending - 1, refcounts)

\* a variant of AbandonPending that abandons nothing
AbandonPendingNone(loads, refcounts) == loads

AbandonPending(loads, refcounts) == AbandonLoop(loads, 0, Len(loads), refcounts)

\* ------------------------------------------------------------------------
\* ProcessFeedback
\* ------------------------------------------------------------------------
\* a variant of the evict-all loops that stops before the coarsest standard mip
RECURSIVE ZeroRefCountsBelowCoarsest(_, _)
ZeroRefCountsBelowCoarsest(fs, k) ==
    IF k > Len(TilesFromMip(0)) THEN fs
    ELSE LET c == TilesFromMip(0)[k]
         IN  IF fs.refcounts[c] # 0 /\ c[3] < NumStandardMips - 1
             THEN ZeroRefCountsBelowCoarsest([ fs EXCEPT !.changed = TRUE,
                                                         !.refcounts[c] = 0,
                                                         !.mappings = Append_(@, c),
                                                         !.age[c] = 0 ], k + 1)
             ELSE ZeroRefCountsBelowCoarsest(fs, k + 1)

\* the evict-all loops over s, y, x: k is the position in TilesFromMip(0)
RECURSIVE ZeroRefCounts(_, _)
ZeroRefCounts(fs, k) ==
    IF k > Len(TilesFromMip(0)) THEN fs
    ELSE LET c == TilesFromMip(0)[k]
         IN  IF fs.refcounts[c] # 0
             THEN ZeroRefCounts([ fs EXCEPT !.changed = TRUE,
                                            !.refcounts[c] = 0,
                                            !.mappings = Append_(@, c),
                                            !.age[c] = 0 ], k + 1)
             ELSE ZeroRefCounts(fs, k + 1)

\* a variant of SelectFeedback that takes every ready slot it passes, whatever its fence
RECURSIVE SelectFeedbackLast(_, _, _, _, _)
SelectFeedbackLast(queue, i, feedbackIndex, latestFeedbackFenceValue, completed) ==
    IF i >= NumSwapBuffers
    THEN [ feedbackIndex |-> feedbackIndex, queue |-> queue ]
    ELSE LET feedbackFenceValue == queue[i].m_renderFenceForFeedback
         IN  IF /\ queue[i].m_feedbackQueued
                /\ completed >= feedbackFenceValue
             THEN SelectFeedbackLast([ queue EXCEPT ![i].m_feedbackQueued = FALSE ],
                                     i + 1, i + 1, feedbackFenceValue, completed)
             ELSE SelectFeedbackLast(queue, i + 1, feedbackIndex,
                                     latestFeedbackFenceValue, completed)

\* the selection loop over m_queuedFeedback: returns feedbackIndex and the queue
RECURSIVE SelectFeedback(_, _, _, _, _)
SelectFeedback(queue, i, feedbackIndex, latestFeedbackFenceValue, completed) ==
    IF i >= NumSwapBuffers
    THEN [ feedbackIndex |-> feedbackIndex, queue |-> queue ]
    ELSE LET feedbackFenceValue == queue[i].m_renderFenceForFeedback
         IN  IF /\ queue[i].m_feedbackQueued
                /\ completed >= feedbackFenceValue
                /\ (feedbackIndex = 0 \/ latestFeedbackFenceValue <= feedbackFenceValue)
             THEN SelectFeedback([ queue EXCEPT ![i].m_feedbackQueued = FALSE ],
                                 i + 1, i + 1, feedbackFenceValue, completed)
             ELSE SelectFeedback(queue, i + 1, feedbackIndex,
                                 latestFeedbackFenceValue, completed)

\* a variant of ApplyFeedback that reports a change for every region
RECURSIVE ApplyFeedbackMarkChanged(_, _, _)
ApplyFeedbackMarkChanged(fs, pResolvedData, k) ==
    IF k > Len(RegionSeq) THEN fs
    ELSE LET r == RegionSeq[k]
             desired == Min(pResolvedData[r], m_maxMip)
             initialValue == fs.references[r]
             set == SetMinMip(fs, initialValue, r[1], r[2], desired)
         IN  ApplyFeedbackMarkChanged([ set EXCEPT !.changed = TRUE,
                                                   !.references[r] = desired ],
                                      pResolvedData, k + 1)

\* the loops over y, x of the resolved feedback: k is the position in RegionSeq
RECURSIVE ApplyFeedback(_, _, _)
ApplyFeedback(fs, pResolvedData, k) ==
    IF k > Len(RegionSeq) THEN fs
    ELSE LET r == RegionSeq[k]
             desired == Min(pResolvedData[r], m_maxMip)
             initialValue == fs.references[r]
             set == SetMinMip(fs, initialValue, r[1], r[2], desired)
         IN  ApplyFeedback([ set EXCEPT !.changed = @ \/ (desired # initialValue),
                                        !.references[r] = desired ],
                           pResolvedData, k + 1)

PassState == [ refcounts |-> m_refcounts,
               loads |-> m_pendingTileLoads,
               mappings |-> m_mappings,
               references |-> m_tileReferences,
               age |-> framesSinceAppend,
               changed |-> FALSE ]

ProcessFeedback(in_frameFenceCompletedValue, pResolvedData) ==
    /\ UNCHANGED threadVars
    /\ UNCHANGED << m_resident, m_heapIndices, m_minMipMap, m_readbackIndex,
                    m_frameFenceValue, m_heapFree, uploaderVars >>
    /\ IF m_setZeroRefCounts
       THEN /\ m_setZeroRefCounts' = FALSE
            /\ IF m_refCountsZero
               THEN UNCHANGED << m_refcounts, m_tileReferences, m_pendingTileLoads,
                                 m_mappings, m_tileResidencyChanged, m_refCountsZero,
                                 m_queuedFeedback, framesSinceAppend >>
               ELSE LET fs == ZeroRefCounts(PassState, 1)
                    IN  /\ m_refCountsZero' = TRUE
                        /\ m_queuedFeedback' = [ i \in DOMAIN m_queuedFeedback |->
                               [ m_queuedFeedback[i] EXCEPT !.m_feedbackQueued = FALSE ] ]
                        /\ m_tileReferences' = [ r \in Regions |-> m_maxMip ]
                        /\ m_refcounts' = fs.refcounts
                        /\ m_mappings' = fs.mappings
                        /\ framesSinceAppend' = History(fs.age, fs.mappings)
                        /\ m_pendingTileLoads' = << >>
                        /\ m_tileResidencyChanged' = (m_tileResidencyChanged \/ fs.changed)
       ELSE LET sel == SelectFeedback(m_queuedFeedback, 0, 0, 0, in_frameFenceCompletedValue)
            IN  /\ UNCHANGED m_setZeroRefCounts
                /\ m_queuedFeedback' = sel.queue
                /\ IF sel.feedbackIndex = 0
                   THEN UNCHANGED << m_refcounts, m_tileReferences, m_pendingTileLoads,
                                     m_mappings, m_tileResidencyChanged, m_refCountsZero,
                                     framesSinceAppend >>
                   ELSE LET fs == ApplyFeedback(PassState, pResolvedData, 1)
                        IN  /\ m_refCountsZero' = (m_refCountsZero /\ ~fs.changed)
                            /\ m_tileReferences' = fs.references
                            /\ m_refcounts' = fs.refcounts
                            /\ m_pendingTileLoads' = AbandonPending(fs.loads, fs.refcounts)
                            /\ m_mappings' = Rescue(fs.mappings, fs.refcounts)
                            /\ framesSinceAppend' =
                                   History(fs.age, Rescue(fs.mappings, fs.refcounts))
                            /\ m_tileResidencyChanged' = (m_tileResidencyChanged \/ fs.changed)

\* ResolveFeedback, called by the render thread once per frame for which feedback was
\* requested; the frame fence value advances with the frame
ResolveFeedback ==
    /\ UNCHANGED threadVars
    /\ m_frameFenceValue < MaxFrameFence
    /\ m_readbackIndex' = (m_readbackIndex + 1) % NumSwapBuffers
    /\ m_queuedFeedback' = [ m_queuedFeedback EXCEPT
           ![(m_readbackIndex + 1) % NumSwapBuffers] =
               [ m_renderFenceForFeedback |-> m_frameFenceValue,
                 m_feedbackQueued |-> TRUE ] ]
    /\ m_frameFenceValue' = m_frameFenceValue + 1
    /\ UNCHANGED << residencyVars, m_minMipMap, m_tileResidencyChanged, m_setZeroRefCounts,
                    m_refCountsZero, m_heapFree, uploaderVars, framesSinceAppend >>

\* QueueEviction: the application asks for all tiles of the resource to be evicted;
\* like ResolveFeedback it is a call of the render thread while frames are drawn
QueueEviction ==
    /\ UNCHANGED threadVars
    /\ ~m_setZeroRefCounts
    /\ m_frameFenceValue < MaxFrameFence
    /\ m_setZeroRefCounts' = TRUE
    /\ UNCHANGED << residencyVars, m_minMipMap, m_tileResidencyChanged, m_refCountsZero,
                    m_queuedFeedback, m_readbackIndex, m_frameFenceValue, m_heapFree,
                    uploaderVars, framesSinceAppend >>

\* NextFrame: the render frame has advanced
NextFrame ==
    /\ UNCHANGED threadVars
    /\ m_mappings' = EvictionDelayNextFrame(m_mappings)
    /\ framesSinceAppend' =
           History([ t \in Tiles |-> Min(framesSinceAppend[t] + 1, NumSwapBuffers) ],
                   m_mappings)
    /\ UNCHANGED << m_refcounts, m_resident, m_heapIndices, m_tileReferences, m_minMipMap,
                    m_pendingTileLoads, m_tileResidencyChanged, feedbackVars, m_heapFree,
                    uploaderVars >>

\* ------------------------------------------------------------------------
\* HeapAllocator: a stack of free heap indices
\* ------------------------------------------------------------------------
GetNumFree(heapFree) == Len(heapFree)

HeapAllocate(heapFree) ==
    IF Len(heapFree) = 0
    THEN [ index |-> InvalidIndex, heap |-> heapFree ]
    ELSE [ index |-> heapFree[Len(heapFree)],
           heap |-> SubSeq(heapFree, 1, Len(heapFree) - 1) ]

HeapFree(heapFree, index) == Append(heapFree, index)

\* ------------------------------------------------------------------------
\* UpdateList pool: AllocateUpdateList, FreeUpdateList, SubmitUpdateList
\* a queue state qs carries the fields QueueTiles writes
\* ------------------------------------------------------------------------
\* UpdateList::Reset
Reset(u) == [ u EXCEPT !.m_coords = << >>,
                       !.m_heapIndices = << >>,
                       !.m_evictCoords = << >>,
                       !.m_numPackedMips = 0,
                       !.m_copyFenceValid = FALSE,
                       !.m_copyCompleted = FALSE ]

\* UpdateList::AddUpdate
AddUpdate(u, coord, heapIndex) ==
    [ u EXCEPT !.m_coords = Append(@, coord), !.m_heapIndices = Append(@, heapIndex) ]

GetNumStandardUpdates(u) == Len(u.m_coords)
GetNumEvictions(u) == Len(u.m_evictCoords)
GetNumPackedUpdates(u) == u.m_numPackedMips

\* the probing loop of AllocateUpdateList
RECURSIVE AllocateProbe(_, _)
AllocateProbe(qs, i) ==
    IF i >= NumStreamingBatches
    THEN [ qs |-> qs, pUpdateList |-> nullptr ]
    ELSE LET index == (qs.allocIndex + 1) % NumStreamingBatches
         IN  IF qs.lists[index].m_executionState = "STATE_FREE"
             THEN [ qs |-> [ qs EXCEPT !.allocIndex = index,
                                       !.lists[index] =
                                           [ Reset(@) EXCEPT !.m_executionState = "STATE_ALLOCATED" ] ],
                    pUpdateList |-> index ]
             ELSE AllocateProbe([ qs EXCEPT !.allocIndex = index ], i + 1)

AllocateUpdateList(qs) ==
    IF qs.freeCount > 0
    THEN AllocateProbe([ qs EXCEPT !.freeCount = @ - 1 ], 0)
    ELSE [ qs |-> qs, pUpdateList |-> nullptr ]

FreeUpdateList(qs, index) ==
    [ qs EXCEPT !.lists[index].m_executionState = "STATE_FREE",
                !.freeCount = @ + 1 ]

SubmitUpdateList(qs, index) ==
    [ qs EXCEPT !.lists[index].m_executionState = "STATE_SUBMITTED",
                !.submitFlag = TRUE ]

\* ------------------------------------------------------------------------
\* QueuePendingTileEvictions, QueuePendingTileLoads, QueueTiles
\* ------------------------------------------------------------------------
\* a variant of EvictTile that leaves the heap index of the evicted tile in place
EvictTileKeepIndex(qs, ul, coord) ==
    [ qs EXCEPT !.resident[coord] = "Evicting",
                !.heapFree = HeapFree(@, qs.heapIndices[coord]),
                !.lists[ul].m_evictCoords = Append(@, coord) ]

\* a variant of EvictTile that leaves the tile Resident
EvictTileNoTransient(qs, ul, coord) ==
    [ qs EXCEPT !.heapFree = HeapFree(@, qs.heapIndices[coord]),
                !.heapIndices[coord] = InvalidIndex,
                !.lists[ul].m_evictCoords = Append(@, coord) ]

\* the branch of QueuePendingTileEvictions for a resident tile
EvictTile(qs, ul, coord) ==
    [ qs EXCEPT !.resident[coord] = "Evicting",
                !.heapFree = HeapFree(@, qs.heapIndices[coord]),
                !.heapIndices[coord] = InvalidIndex,
                !.lists[ul].m_evictCoords = Append(@, coord) ]

\* a variant of the loop of QueuePendingTileEvictions that drops the entry of a tile
\* that is Loading
RECURSIVE EvictLoopDropsLoading(_, _, _, _)
EvictLoopDropsLoading(qs, ul, k, numDelayed) ==
    LET last == Len(qs.mappings)
        evictions == qs.mappings[last]
    IN  IF k > Len(evictions)
        THEN [ qs EXCEPT !.mappings[last] = SubSeq(evictions, 1, numDelayed) ]
        ELSE LET coord == evictions[k]
             IN  IF qs.resident[coord] = "Resident"
                 THEN EvictLoopDropsLoading(EvictTile(qs, ul, coord), ul, k + 1, numDelayed)
                 ELSE EvictLoopDropsLoading(qs, ul, k + 1, numDelayed)

\* the loop over GetReadyToEvict(): k is the position of coord
RECURSIVE EvictLoop(_, _, _, _)
EvictLoop(qs, ul, k, numDelayed) ==
    LET last == Len(qs.mappings)
        evictions == qs.mappings[last]
    IN  IF k > Len(evictions)
        THEN [ qs EXCEPT !.mappings[last] = SubSeq(evictions, 1, numDelayed) ]
        ELSE LET coord == evictions[k]
                 residency == qs.resident[coord]
             IN  IF residency = "Resident"
                 THEN EvictLoop(EvictTile(qs, ul, coord), ul, k + 1, numDelayed)
                 ELSE IF residency = "Loading"
                      THEN EvictLoop([ qs EXCEPT !.mappings[last][numDelayed + 1] = coord ],
                                     ul, k + 1, numDelayed + 1)
                      ELSE EvictLoop(qs, ul, k + 1, numDelayed)

QueuePendingTileEvictions(qs, ul) == EvictLoop(qs, ul, 1, 0)

\* a variant of EraseConsumed that clears the pending loads
EraseConsumedAll(qs, skippedIndex, numConsumed) ==
    IF numConsumed > 0 THEN [ qs EXCEPT !.loads = << >> ] ELSE qs

\* the erase that ends QueuePendingTileLoads
EraseConsumed(qs, skippedIndex, numConsumed) ==
    IF numConsumed > 0
    THEN [ qs EXCEPT !.loads = SubSeq(@, 1, skippedIndex)
                               \o SubSeq(@, numConsumed + 1, Len(@)) ]
    ELSE qs

\* a variant of the loop of QueuePendingTileLoads that drops the entry of a tile that
\* is Evicting
RECURSIVE LoadLoopDropsEvicting(_, _, _, _, _)
LoadLoopDropsEvicting(qs, ul, k, skippedIndex, maxCopies) ==
    IF k > Len(qs.loads)
    THEN EraseConsumed(qs, skippedIndex, k - 1)
    ELSE LET coord == qs.loads[k]
             a == HeapAllocate(qs.heapFree)
         IN  IF qs.resident[coord] = "NotResident"
             THEN LET loaded == [ qs EXCEPT !.resident[coord] = "Loading",
                                            !.heapIndices[coord] = a.index,
                                            !.heapFree = a.heap,
                                            !.lists[ul] = AddUpdate(@, coord, a.index) ]
                  IN  IF maxCopies - 1 = 0
                      THEN EraseConsumed(loaded, skippedIndex, k)
                      ELSE LoadLoopDropsEvicting(loaded, ul, k + 1, skippedIndex,
                                                 maxCopies - 1)
             ELSE LoadLoopDropsEvicting(qs, ul, k + 1, skippedIndex, maxCopies)

\* numConsumed when the loop of QueuePendingTileLoads ends: k is the position of coord,
\* copies the number of loads recorded so far; a tile that occurred before is Loading
RECURSIVE NumConsumed(_, _, _, _)
NumConsumed(qs, k, copies, maxCopies) ==
    IF k > Len(qs.loads)
    THEN k - 1
    ELSE IF qs.resident[qs.loads[k]] = "NotResident"
            /\ \A j \in 1 .. k - 1 : qs.loads[j] # qs.loads[k]
         THEN IF copies + 1 = maxCopies
              THEN k
              ELSE NumConsumed(qs, k + 1, copies + 1, maxCopies)
         ELSE NumConsumed(qs, k + 1, copies, maxCopies)

\* the loop over m_pendingTileLoads: k is the position of coord
RECURSIVE LoadLoop(_, _, _, _, _)
LoadLoop(qs, ul, k, skippedIndex, maxCopies) ==
    IF k > Len(qs.loads)
    THEN EraseConsumed(qs, skippedIndex, k - 1)
    ELSE LET coord == qs.loads[k]
             residency == qs.resident[coord]
             a == HeapAllocate(qs.heapFree)
         IN  IF residency = "NotResident"
             THEN LET loaded == [ qs EXCEPT !.resident[coord] = "Loading",
                                            !.heapIndices[coord] = a.index,
                                            !.heapFree = a.heap,
                                            !.lists[ul] = AddUpdate(@, coord, a.index) ]
                  IN  IF maxCopies - 1 = 0
                      THEN EraseConsumed(loaded, skippedIndex, k)
                      ELSE LoadLoop(loaded, ul, k + 1, skippedIndex, maxCopies - 1)
             ELSE IF residency = "Evicting"
                  THEN LoadLoop([ qs EXCEPT !.loads[skippedIndex + 1] = coord ],
                                ul, k + 1, skippedIndex + 1, maxCopies)
                  ELSE LoadLoop(qs, ul, k + 1, skippedIndex, maxCopies)

\* a variant of QueuePendingTileLoads that takes the tiles the UpdateList evicts as loads
QueuePendingTileLoadsOfEvicted(qs, ul) ==
    LoadLoop([ qs EXCEPT !.loads = qs.lists[ul].m_evictCoords \o @,
                         !.resident = [ t \in Tiles |->
                             IF \E j \in 1 .. Len(qs.lists[ul].m_evictCoords) :
                                    qs.lists[ul].m_evictCoords[j] = t
                             THEN "NotResident" ELSE qs.resident[t] ] ],
             ul, 1, 0,
             Min(Min(Len(qs.loads), MaxTileCopiesPerBatch), GetNumFree(qs.heapFree)))

QueuePendingTileLoads(qs, ul) ==
    LoadLoop(qs, ul, 1, 0,
             Min(Min(Len(qs.loads), MaxTileCopiesPerBatch), GetNumFree(qs.heapFree)))

\* a variant of the while loop of QueueTiles that does not look at the free heap pages
RECURSIVE QueueTilesLoopIgnoreHeap(_, _, _)
QueueTilesLoopIgnoreHeap(qs, numEvictions, numLoads) ==
    IF ~(numLoads > 0 \/ numEvictions > 0)
    THEN qs
    ELSE LET a == AllocateUpdateList(qs)
             ul == a.pUpdateList
         IN  IF ul = nullptr
             THEN a.qs
             ELSE LET e == IF numEvictions > 0
                           THEN QueuePendingTileEvictions(a.qs, ul)
                           ELSE a.qs
                      numEvictions2 == IF numEvictions > 0
                                       THEN Len(GetReadyToEvict(e.mappings))
                                       ELSE numEvictions
                      doLoads == numLoads > 0
                      l == IF doLoads THEN QueuePendingTileLoads(e, ul) ELSE e
                      numLoads2 == IF doLoads THEN Len(l.loads) ELSE numLoads
                  IN  IF \/ Len(l.lists[ul].m_coords) > 0
                         \/ Len(l.lists[ul].m_evictCoords) > 0
                      THEN QueueTilesLoopIgnoreHeap(SubmitUpdateList(l, ul),
                                                    numEvictions2, numLoads2)
                      ELSE FreeUpdateList(l, ul)

\* a variant of the while loop of QueueTiles that gives up the pending loads when it
\* gets no UpdateList
RECURSIVE QueueTilesLoopDropOnFailure(_, _, _)
QueueTilesLoopDropOnFailure(qs, numEvictions, numLoads) ==
    IF ~((numLoads > 0 /\ GetNumFree(qs.heapFree) > 0) \/ numEvictions > 0)
    THEN qs
    ELSE LET a == AllocateUpdateList(qs)
             ul == a.pUpdateList
         IN  IF ul = nullptr
             THEN [ a.qs EXCEPT !.loads = << >> ]
             ELSE LET e == IF numEvictions > 0
                           THEN QueuePendingTileEvictions(a.qs, ul)
                           ELSE a.qs
                      numEvictions2 == IF numEvictions > 0
                                       THEN Len(GetReadyToEvict(e.mappings))
                                       ELSE numEvictions
                      doLoads == numLoads > 0 /\ GetNumFree(e.heapFree) > 0
                      l == IF doLoads THEN QueuePendingTileLoads(e, ul) ELSE e
                      numLoads2 == IF doLoads THEN Len(l.loads) ELSE numLoads
                  IN  IF \/ Len(l.lists[ul].m_coords) > 0
                         \/ Len(l.lists[ul].m_evictCoords) > 0
                      THEN QueueTilesLoopDropOnFailure(SubmitUpdateList(l, ul),
                                                       numEvictions2, numLoads2)
                      ELSE FreeUpdateList(l, ul)

\* a variant of the while loop of QueueTiles that submits the UpdateList it leaves
\* empty
RECURSIVE QueueTilesLoopSubmitsEmpty(_, _, _)
QueueTilesLoopSubmitsEmpty(qs, numEvictions, numLoads) ==
    IF ~((numLoads > 0 /\ GetNumFree(qs.heapFree) > 0) \/ numEvictions > 0)
    THEN qs
    ELSE LET a == AllocateUpdateList(qs)
             ul == a.pUpdateList
         IN  IF ul = nullptr
             THEN a.qs
             ELSE LET e == IF numEvictions > 0
                           THEN QueuePendingTileEvictions(a.qs, ul)
                           ELSE a.qs
                      numEvictions2 == IF numEvictions > 0
                                       THEN Len(GetReadyToEvict(e.mappings))
                                       ELSE numEvictions
                      doLoads == numLoads > 0 /\ GetNumFree(e.heapFree) > 0
                      l == IF doLoads THEN QueuePendingTileLoads(e, ul) ELSE e
                      numLoads2 == IF doLoads THEN Len(l.loads) ELSE numLoads
                  IN  IF \/ Len(l.lists[ul].m_coords) > 0
                         \/ Len(l.lists[ul].m_evictCoords) > 0
                      THEN QueueTilesLoopSubmitsEmpty(SubmitUpdateList(l, ul),
                                                      numEvictions2, numLoads2)
                      ELSE SubmitUpdateList(l, ul)

\* the while loop of QueueTiles
RECURSIVE QueueTilesLoop(_, _, _)
QueueTilesLoop(qs, numEvictions, numLoads) ==
    IF ~((numLoads > 0 /\ GetNumFree(qs.heapFree) > 0) \/ numEvictions > 0)
    THEN qs
    ELSE LET a == AllocateUpdateList(qs)
             ul == a.pUpdateList
         IN  IF ul = nullptr
             THEN a.qs
             ELSE LET e == IF numEvictions > 0
                           THEN QueuePendingTileEvictions(a.qs, ul)
                           ELSE a.qs
                      numEvictions2 == IF numEvictions > 0
                                       THEN Len(GetReadyToEvict(e.mappings))
                                       ELSE numEvictions
                      doLoads == numLoads > 0 /\ GetNumFree(e.heapFree) > 0
                      l == IF doLoads THEN QueuePendingTileLoads(e, ul) ELSE e
                      numLoads2 == IF doLoads THEN Len(l.loads) ELSE numLoads
                  IN  IF \/ Len(l.lists[ul].m_coords) > 0
                         \/ Len(l.lists[ul].m_evictCoords) > 0
                      THEN QueueTilesLoop(SubmitUpdateList(l, ul), numEvictions2, numLoads2)
                      ELSE FreeUpdateList(l, ul)

QueueState == [ resident |-> m_resident,
                heapIndices |-> m_heapIndices,
                heapFree |-> m_heapFree,
                loads |-> m_pendingTileLoads,
                mappings |-> m_mappings,
                lists |-> m_updateLists,
                freeCount |-> m_updateListFreeCount,
                allocIndex |-> m_updateListAllocIndex,
                submitFlag |-> m_submitFlag ]

QueueTiles ==
    LET qs == QueueTilesLoop(QueueState, Len(GetReadyToEvict(m_mappings)),
                             Len(m_pendingTileLoads))
    IN  /\ m_resident' = qs.resident
        /\ m_heapIndices' = qs.heapIndices
        /\ m_heapFree' = qs.heapFree
        /\ m_pendingTileLoads' = qs.loads
        /\ m_mappings' = qs.mappings
        /\ m_updateLists' = qs.lists
        /\ m_updateListFreeCount' = qs.freeCount
        /\ m_updateListAllocIndex' = qs.allocIndex
        /\ m_submitFlag' = qs.submitFlag
        /\ framesSinceAppend' = History(framesSinceAppend, qs.mappings)
        /\ UNCHANGED << m_refcounts, m_tileReferences, m_minMipMap, m_tileResidencyChanged,
                        feedbackVars, m_mappingFenceValue, m_mappingFenceCompleted >>
        /\ UNCHANGED threadVars

\* ------------------------------------------------------------------------
\* DataUploader threads
\* ------------------------------------------------------------------------
\* the loop of SubmitThread over m_updateLists: returns the lists and signalMap
RECURSIVE SubmitScan(_, _, _)
SubmitScan(lists, i, signalMap) ==
    IF i >= NumStreamingBatches
    THEN [ lists |-> lists, signalMap |-> signalMap ]
    ELSE IF lists[i].m_executionState = "STATE_SUBMITTED"
         THEN SubmitScan([ lists EXCEPT
                  ![i].m_mappingFenceValue = m_mappingFenceValue,
                  ![i].m_executionState = IF GetNumStandardUpdates(lists[i]) > 0
                                          THEN "STATE_UPLOADING"
                                          ELSE IF GetNumPackedUpdates(lists[i]) = 0
                                               THEN "STATE_COPY_PENDING"
                                               ELSE "STATE_PACKED_MAPPING" ],
                  i + 1, TRUE)
         ELSE SubmitScan(lists, i + 1, signalMap)

\* the submit thread: m_submitFlag.Wait(), then SubmitThread()
SubmitThread ==
    /\ UNCHANGED threadVars
    /\ m_submitFlag
    /\ m_mappingFenceValue < MaxMappingFence
    /\ m_submitFlag' = FALSE
    /\ LET r == SubmitScan(m_updateLists, 0, FALSE)
       IN  /\ m_updateLists' = r.lists
           /\ m_mappingFenceValue' = IF r.signalMap THEN m_mappingFenceValue + 1
                                     ELSE m_mappingFenceValue
    /\ UNCHANGED << residencyVars, m_minMipMap, m_tileResidencyChanged, feedbackVars,
                    m_heapFree, m_updateListFreeCount, m_updateListAllocIndex,
                    m_mappingFenceCompleted, framesSinceAppend >>

\* the mapping queue reaches the next value signalled on the mapping fence
MappingQueueSignal ==
    /\ UNCHANGED threadVars
    /\ m_mappingFenceCompleted < m_mappingFenceValue - 1
    /\ m_mappingFenceCompleted' = m_mappingFenceCompleted + 1
    /\ UNCHANGED << residencyVars, m_minMipMap, m_tileResidencyChanged, feedbackVars,
                    m_heapFree, m_updateLists, m_updateListFreeCount,
                    m_updateListAllocIndex, m_submitFlag, m_mappingFenceValue,
                    framesSinceAppend >>

\* the file streamer, handed the UpdateList by StreamTexture in SubmitUpdateList, has
\* issued its copies
StreamerCopy(i) ==
    /\ UNCHANGED threadVars
    /\ m_updateLists[i].m_executionState \in { "STATE_SUBMITTED", "STATE_UPLOADING" }
    /\ GetNumStandardUpdates(m_updateLists[i]) > 0
    /\ ~m_updateLists[i].m_copyFenceValid
    /\ m_updateLists' = [ m_updateLists EXCEPT ![i].m_copyFenceValid = TRUE ]
    /\ UNCHANGED << residencyVars, m_minMipMap, m_tileResidencyChanged, feedbackVars,
                    m_heapFree, m_updateListFreeCount, m_updateListAllocIndex,
                    m_submitFlag, m_mappingFenceValue, m_mappingFenceCompleted,
                    framesSinceAppend >>

\* the copies of an UpdateList have completed: GetCompleted() returns true from now on
StreamerComplete(i) ==
    /\ UNCHANGED threadVars
    /\ m_updateLists[i].m_executionState
           \in { "STATE_SUBMITTED", "STATE_UPLOADING", "STATE_COPY_PENDING" }
    /\ m_updateLists[i].m_copyFenceValid
    /\ ~m_updateLists[i].m_copyCompleted
    /\ m_updateLists' = [ m_updateLists EXCEPT ![i].m_copyCompleted = TRUE ]
    /\ UNCHANGED << residencyVars, m_minMipMap, m_tileResidencyChanged, feedbackVars,
                    m_heapFree, m_updateListFreeCount, m_updateListAllocIndex,
                    m_submitFlag, m_mappingFenceValue, m_mappingFenceCompleted,
                    framesSinceAppend >>

\* NotifyEvicted, NotifyCopyComplete: the notifications of one UpdateList
RECURSIVE SetAll(_, _, _, _)
SetAll(resident, coords, k, value) ==
    IF k > Len(coords) THEN resident
    ELSE SetAll([ resident EXCEPT ![coords[k]] = value ], coords, k + 1, value)

NotifyEvicted(ms, coords) ==
    [ ms EXCEPT !.resident = SetAll(@, coords, 1, "NotResident"), !.changed = TRUE ]

NotifyCopyComplete(ms, coords) ==
    [ ms EXCEPT !.resident = SetAll(@, coords, 1, "Resident"), !.changed = TRUE ]

\* NotifyPackedMips: the packed mips are loaded, the resource needs its transition
NotifyPackedMips(ms) == [ ms EXCEPT !.packedMipStatus = "NEEDS_TRANSITION" ]

\* a variant of CopyPendingComplete that does not look at the mapping fence
CopyPendingCompleteNoFence(u) ==
    IF GetNumStandardUpdates(u) > 0 \/ GetNumPackedUpdates(u) > 0
    THEN u.m_copyCompleted
    ELSE TRUE

\* case STATE_COPY_PENDING of FenceMonitorThread: is the UpdateList complete?
CopyPendingComplete(u) ==
    /\ (GetNumStandardUpdates(u) > 0 => u.m_copyCompleted)
    /\ IF GetNumPackedUpdates(u) = 0
       THEN ~(u.m_mappingFenceValue > m_mappingFenceCompleted)
       ELSE u.m_copyCompleted

\* the loop of FenceMonitorThread over m_updateLists
\* a monitor state ms carries the fields the fence monitor thread writes
RECURSIVE MonitorScan(_, _)
MonitorScan(ms, i) ==
    IF i >= NumStreamingBatches THEN ms
    ELSE LET u == ms.lists[i]
         IN  IF u.m_executionState = "STATE_PACKED_MAPPING"
             THEN MonitorScan(IF u.m_mappingFenceValue <= m_mappingFenceCompleted
                              THEN [ ms EXCEPT !.lists[i].m_executionState = "STATE_UPLOADING" ]
                              ELSE ms, i + 1)
             ELSE IF u.m_executionState = "STATE_UPLOADING"
             THEN MonitorScan(IF u.m_copyFenceValid
                              THEN [ ms EXCEPT !.lists[i].m_executionState = "STATE_COPY_PENDING" ]
                              ELSE ms, i + 1)
             ELSE IF u.m_executionState = "STATE_COPY_PENDING" /\ CopyPendingComplete(u)
                  THEN LET e == IF GetNumEvictions(u) > 0
                                THEN NotifyEvicted(ms, u.m_evictCoords) ELSE ms
                           c == IF GetNumStandardUpdates(u) > 0
                                THEN NotifyCopyComplete(e, u.m_coords) ELSE e
                           n == IF GetNumPackedUpdates(u) > 0
                                THEN NotifyPackedMips(c) ELSE c
                       IN  MonitorScan(FreeUpdateList(n, i), i + 1)
                  ELSE MonitorScan(ms, i + 1)

MonitorState == [ resident |-> m_resident,
                  changed |-> m_tileResidencyChanged,
                  lists |-> m_updateLists,
                  freeCount |-> m_updateListFreeCount,
                  packedMipStatus |-> packed.status ]

FenceMonitorThread ==
    /\ UNCHANGED << allocator, submitter, monitor, flusher, m_monitorFenceFlag,
                    m_mappingCommandQueue, executed, notified, mapper >>
    /\ \E i \in DOMAIN m_updateLists :
           m_updateLists[i].m_executionState
               \in { "STATE_PACKED_MAPPING", "STATE_UPLOADING", "STATE_COPY_PENDING" }
    /\ LET ms == MonitorScan(MonitorState, 0)
       IN  /\ packed' = [ packed EXCEPT !.status = ms.packedMipStatus ]
           /\ m_resident' = ms.resident
           /\ m_tileResidencyChanged' = ms.changed
           /\ m_updateLists' = ms.lists
           /\ m_updateListFreeCount' = ms.freeCount
    /\ UNCHANGED << m_refcounts, m_heapIndices, m_tileReferences, m_minMipMap,
                    m_pendingTileLoads, m_mappings, feedbackVars, m_heapFree,
                    m_updateListAllocIndex, m_submitFlag, m_mappingFenceValue,
                    m_mappingFenceCompleted, framesSinceAppend >>

\* ------------------------------------------------------------------------
\* UpdateMinMipMap
\* ------------------------------------------------------------------------
GetResident(x, y, s) == m_resident[Coord(x, y, s)] = "Resident"

\* a variant of GetAnyRefCount that scans the finest mip
GetAnyRefCountFinest ==
    \E c \in { t \in Tiles : t[3] = 0 } : m_refcounts[c] # 0

GetAnyRefCount ==
    \E c \in { t \in Tiles : t[3] = NumStandardMips - 1 } : m_refcounts[c] # 0

GetMinResidentMip ==
    IF \E c \in { t \in Tiles : t[3] = NumStandardMips - 1 } : m_resident[c] # "Resident"
    THEN NumStandardMips
    ELSE NumStandardMips - 1

\* a variant of the while loop of UpdateMinMipMap that skips a tile that is not
\* Resident instead of stopping at it
RECURSIVE MinMipWalkSkipHoles(_, _, _, _)
MinMipWalkSkipHoles(x, y, s, minMip) ==
    IF s > 0
    THEN IF GetResident(Shr(x, s - 1), Shr(y, s - 1), s - 1)
         THEN MinMipWalkSkipHoles(x, y, s - 1, s - 1)
         ELSE MinMipWalkSkipHoles(x, y, s - 1, minMip)
    ELSE minMip

\* the while loop of UpdateMinMipMap over s for the region (x, y)
RECURSIVE MinMipWalk(_, _, _, _)
MinMipWalk(x, y, s, minMip) ==
    IF s > 0
    THEN IF GetResident(Shr(x, s - 1), Shr(y, s - 1), s - 1)
         THEN MinMipWalk(x, y, s - 1, s - 1)
         ELSE minMip
    ELSE minMip

UpdateMinMipMap ==
    /\ UNCHANGED threadVars
    /\ m_tileResidencyChanged
    /\ m_tileResidencyChanged' = FALSE
    /\ m_minMipMap' =
           IF GetAnyRefCount
           THEN [ r \in Regions |->
                    LET s == Max(GetMinResidentMip, m_minMipMap[r])
                    IN  MinMipWalk(r[1], r[2], s, s) ]
           ELSE [ r \in Regions |-> m_maxMip ]
    /\ UNCHANGED << residencyVars, feedbackVars, m_heapFree, uploaderVars, framesSinceAppend >>

\* ------------------------------------------------------------------------
\* specification
\* ------------------------------------------------------------------------
\* the inputs of ProcessFeedback: a completed frame fence value, which is at most the
\* frame fence value, and the resolved feedback, which is read only when a queued
\* feedback is selected
FeedbackBuffers == [ Regions -> 0 .. MaxFeedbackValue ]
CompletedFenceValues == 0 .. m_frameFenceValue
ResolvedFeedback(fence) ==
    IF \/ m_setZeroRefCounts
       \/ SelectFeedback(m_queuedFeedback, 0, 0, 0, fence).feedbackIndex = 0
    THEN { [ r \in Regions |-> m_maxMip ] }
    ELSE FeedbackBuffers

Next ==
    \/ ResolveFeedback
    \/ QueueEviction
    \/ \E fence \in CompletedFenceValues : \E fb \in ResolvedFeedback(fence) :
           ProcessFeedback(fence, fb)
    \/ QueueTiles
    \/ NextFrame
    \/ UpdateMinMipMap
    \/ SubmitThread
    \/ MappingQueueSignal
    \/ \E i \in 0 .. NumStreamingBatches - 1 : StreamerCopy(i)
    \/ \E i \in 0 .. NumStreamingBatches - 1 : StreamerComplete(i)
    \/ FenceMonitorThread

Spec == Init /\ [][Next]_vars

\* a call of ProcessFeedback, with every frame fence value completed, changes the
\* state: all tiles are to be evicted, or the selection loop picks a queued feedback
ProcessFeedbackChanges ==
    \/ m_setZeroRefCounts
    \/ SelectFeedback(m_queuedFeedback, 0, 0, 0, m_frameFenceValue).queue # m_queuedFeedback

\* a call of QueueTiles changes the state
QueueTilesChanges ==
    LET qs == QueueTilesLoop(QueueState, Len(GetReadyToEvict(m_mappings)),
                             Len(m_pendingTileLoads))
    IN  \/ qs # QueueState
        \/ framesSinceAppend # History(framesSinceAppend, qs.mappings)

\* the resource and the DataUploader under fair scheduling: the thread that processes
\* feedback and queues tiles, the frames of the application, the submit thread, the
\* mapping queue, the file streamer and the fence monitor thread all run for ever,
\* and every frame fence value is eventually completed. The weak fairness of
\* ProcessFeedback and of QueueTiles is written out as "infinitely often the call
\* would change nothing, or infinitely often the call is made".
SpecFair ==
    /\ Init
    /\ [][Next]_vars
    /\ \/ []<>(~ProcessFeedbackChanges)
       \/ []<><<\E fb \in ResolvedFeedback(m_frameFenceValue) :
                    ProcessFeedback(m_frameFenceValue, fb)>>_vars
    /\ \/ []<>(~QueueTilesChanges)
       \/ []<><<QueueTiles>>_vars
    /\ WF_vars(NextFrame)
    /\ WF_vars(UpdateMinMipMap)
    /\ WF_vars(SubmitThread)
    /\ WF_vars(MappingQueueSignal)
    /\ \A i \in 0 .. NumStreamingBatches - 1 : WF_vars(StreamerCopy(i) \/ StreamerComplete(i))
    /\ WF_vars(FenceMonitorThread)

TypeOK ==
    /\ m_refcounts \in [ Tiles -> 0 .. NumTilesWidth * NumTilesHeight ]
    /\ m_resident \in [ Tiles -> Residency ]
    /\ m_updateListFreeCount \in 0 .. NumStreamingBatches

\* ------------------------------------------------------------------------
\* DataUploader at the granularity of its atomic operations: the callers of
\* AllocateUpdateList, the submit thread, the fence monitor thread, the mapping
\* queue, the file streamer and the caller of FlushCommands
\* ------------------------------------------------------------------------
Allocators == 1 .. NumAllocators
Lists == 0 .. NumStreamingBatches - 1

\* m_updateListFreeCount is an atomic UINT: a value c below zero stands for the
\* wrapped value 2^32 + c, so c > 0 and c < n are the unsigned comparisons
IsPositive(c) == c # 0
IsLess(c, n) == c >= 0 /\ c < n

\* what a caller puts on the UpdateList it was handed: QueueTiles adds evictions and
\* loads of tiles, InitPackedMips adds the packed mip request
Payloads ==
    { [ m_coords |-> c, m_evictCoords |-> e, m_numPackedMips |-> 0 ] :
          c \in { << >>, << Coord(0, 0, 0) >> },
          e \in { << >>, << Coord(0, 0, NumStandardMips - 1) >> } }
    \cup { [ m_coords |-> << >>, m_evictCoords |-> << >>, m_numPackedMips |-> 1 ] }

\* AllocateUpdateList: if (m_updateListFreeCount.load() > 0)
AllocateLoad(a) ==
    /\ allocator[a].pc = "idle"
    /\ IsPositive(m_updateListFreeCount)
    /\ m_updateListFreeCount > 0 - MaxFreeCountWrap
    /\ allocator' = [ allocator EXCEPT ![a].pc = "fetch_sub" ]
    /\ UNCHANGED << resourceVars, uploaderVars, submitter, monitor, flusher,
                    m_monitorFenceFlag, m_mappingCommandQueue, executed, notified >>
    /\ UNCHANGED << mapper, packed >>

\* AllocateUpdateList: m_updateListFreeCount.fetch_sub(1)
AllocateFetchSub(a) ==
    /\ allocator[a].pc = "fetch_sub"
    /\ m_updateListFreeCount' = m_updateListFreeCount - 1
    /\ allocator' = [ allocator EXCEPT ![a].pc = "loop", ![a].i = 0 ]
    /\ UNCHANGED << resourceVars, m_updateLists, m_updateListAllocIndex, m_submitFlag,
                    m_mappingFenceValue, m_mappingFenceCompleted, submitter, monitor,
                    flusher, m_monitorFenceFlag, m_mappingCommandQueue, executed, notified >>
    /\ UNCHANGED << mapper, packed >>

\* AllocateUpdateList: the loop condition and the update of m_updateListAllocIndex;
\* leaving the loop without a list returns nullptr
AllocateLoop(a) ==
    /\ allocator[a].pc = "loop"
    /\ IF allocator[a].i < NumStreamingBatches
       THEN /\ m_updateListAllocIndex' = (m_updateListAllocIndex + 1) % NumStreamingBatches
            /\ allocator' = [ allocator EXCEPT ![a].pc = "cas",
                                  ![a].index = (m_updateListAllocIndex + 1) % NumStreamingBatches ]
       ELSE /\ UNCHANGED m_updateListAllocIndex
            /\ allocator' = [ allocator EXCEPT ![a].pc = "idle", ![a].i = 0, ![a].index = 0 ]
    /\ UNCHANGED << resourceVars, m_updateLists, m_updateListFreeCount, m_submitFlag,
                    m_mappingFenceValue, m_mappingFenceCompleted, submitter, monitor,
                    flusher, m_monitorFenceFlag, m_mappingCommandQueue, executed, notified >>
    /\ UNCHANGED << mapper, packed >>

\* a variant of AllocateCompareExchange that stores STATE_ALLOCATED without comparing
AllocateExchange(a) ==
    /\ allocator[a].pc = "cas"
    /\ \E p \in { allocator[a].index, m_updateListAllocIndex } :
           /\ m_updateLists' =
                  [ m_updateLists EXCEPT ![p].m_executionState = "STATE_ALLOCATED" ]
           /\ allocator' = [ allocator EXCEPT ![a].pc = "reset", ![a].i = 0,
                                              ![a].index = 0, ![a].pUpdateList = p ]
    /\ UNCHANGED << resourceVars, m_updateListFreeCount, m_updateListAllocIndex,
                    m_submitFlag, m_mappingFenceValue, m_mappingFenceCompleted, submitter,
                    monitor, flusher, m_monitorFenceFlag, m_mappingCommandQueue, executed,
                    notified >>
    /\ UNCHANGED << mapper, packed >>

\* AllocateUpdateList: compare_exchange_weak(STATE_FREE, STATE_ALLOCATED) on
\* m_updateLists[m_updateListAllocIndex]; m_updateListAllocIndex is not atomic, so the
\* index is the value this caller wrote or the value another caller has written since
AllocateCompareExchange(a) ==
    /\ allocator[a].pc = "cas"
    /\ \E p \in { allocator[a].index, m_updateListAllocIndex } :
           IF m_updateLists[p].m_executionState = "STATE_FREE"
           THEN /\ m_updateLists' =
                       [ m_updateLists EXCEPT ![p].m_executionState = "STATE_ALLOCATED" ]
                /\ allocator' = [ allocator EXCEPT ![a].pc = "reset", ![a].i = 0,
                                                   ![a].index = 0, ![a].pUpdateList = p ]
           ELSE /\ UNCHANGED m_updateLists
                /\ allocator' = [ allocator EXCEPT ![a].pc = "loop", ![a].i = @ + 1 ]
    /\ UNCHANGED << resourceVars, m_updateListFreeCount, m_updateListAllocIndex,
                    m_submitFlag, m_mappingFenceValue, m_mappingFenceCompleted, submitter,
                    monitor, flusher, m_monitorFenceFlag, m_mappingCommandQueue, executed,
                    notified >>
    /\ UNCHANGED << mapper, packed >>

\* AllocateUpdateList: p.Reset(), m_monitorFenceFlag.Set(), and the return of the list
AllocateReset(a) ==
    /\ allocator[a].pc = "reset"
    /\ m_updateLists' = [ m_updateLists EXCEPT ![allocator[a].pUpdateList] = Reset(@) ]
    /\ m_monitorFenceFlag' = TRUE
    /\ allocator' = [ allocator EXCEPT ![a].pc = "allocated" ]
    /\ UNCHANGED << resourceVars, m_updateListFreeCount, m_updateListAllocIndex,
                    m_submitFlag, m_mappingFenceValue, m_mappingFenceCompleted, submitter,
                    monitor, flusher, m_mappingCommandQueue, executed, notified >>
    /\ UNCHANGED << mapper, packed >>

\* the caller fills the UpdateList and calls SubmitUpdateList, which hands the loads
\* to the file streamer (StreamTexture) and writes STATE_SUBMITTED
SubmitUpdateListState(a, payload) ==
    /\ allocator[a].pc = "allocated"
    /\ payload.m_coords # << >> \/ payload.m_evictCoords # << >> \/ payload.m_numPackedMips > 0
    /\ m_updateLists' = [ m_updateLists EXCEPT ![allocator[a].pUpdateList] =
           [ @ EXCEPT !.m_coords = payload.m_coords,
                      !.m_heapIndices = [ k \in 1 .. Len(payload.m_coords) |-> k - 1 ],
                      !.m_evictCoords = payload.m_evictCoords,
                      !.m_numPackedMips = payload.m_numPackedMips,
                      !.m_executionState = "STATE_SUBMITTED" ] ]
    /\ allocator' = [ allocator EXCEPT ![a].pc = "set" ]
    /\ UNCHANGED << resourceVars, m_updateListFreeCount, m_updateListAllocIndex,
                    m_submitFlag, m_mappingFenceValue, m_mappingFenceCompleted, submitter,
                    monitor, flusher, m_monitorFenceFlag, m_mappingCommandQueue, executed,
                    notified >>
    /\ UNCHANGED << mapper, packed >>

\* a variant of SubmitUpdateListSet that returns without m_submitFlag.Set()
SubmitUpdateListReturn(a) ==
    /\ allocator[a].pc = "set"
    /\ UNCHANGED m_submitFlag
    /\ allocator' = [ allocator EXCEPT ![a].pc = "idle", ![a].pUpdateList = nullptr ]
    /\ UNCHANGED << resourceVars, m_updateLists, m_updateListFreeCount,
                    m_updateListAllocIndex, m_mappingFenceValue, m_mappingFenceCompleted,
                    submitter, monitor, flusher, m_monitorFenceFlag, m_mappingCommandQueue,
                    executed, notified >>
    /\ UNCHANGED << mapper, packed >>

\* SubmitUpdateList: m_submitFlag.Set()
SubmitUpdateListSet(a) ==
    /\ allocator[a].pc = "set"
    /\ m_submitFlag' = TRUE
    /\ allocator' = [ allocator EXCEPT ![a].pc = "idle", ![a].pUpdateList = nullptr ]
    /\ UNCHANGED << resourceVars, m_updateLists, m_updateListFreeCount,
                    m_updateListAllocIndex, m_mappingFenceValue, m_mappingFenceCompleted,
                    submitter, monitor, flusher, m_monitorFenceFlag, m_mappingCommandQueue,
                    executed, notified >>
    /\ UNCHANGED << mapper, packed >>

\* the caller found nothing to put on the UpdateList and calls FreeUpdateList:
\* m_executionState = STATE_FREE
FreeUpdateListState(a) ==
    /\ allocator[a].pc = "allocated"
    /\ m_updateLists' = [ m_updateLists EXCEPT
           ![allocator[a].pUpdateList].m_executionState = "STATE_FREE" ]
    /\ allocator' = [ allocator EXCEPT ![a].pc = "fetch_add", ![a].pUpdateList = nullptr ]
    /\ UNCHANGED << resourceVars, m_updateListFreeCount, m_updateListAllocIndex,
                    m_submitFlag, m_mappingFenceValue, m_mappingFenceCompleted, submitter,
                    monitor, flusher, m_monitorFenceFlag, m_mappingCommandQueue, executed,
                    notified >>
    /\ UNCHANGED << mapper, packed >>

\* FreeUpdateList: m_updateListFreeCount.fetch_add(1)
FreeUpdateListFetchAdd(a) ==
    /\ allocator[a].pc = "fetch_add"
    /\ m_updateListFreeCount' = m_updateListFreeCount + 1
    /\ allocator' = [ allocator EXCEPT ![a].pc = "idle" ]
    /\ UNCHANGED << resourceVars, m_updateLists, m_updateListAllocIndex, m_submitFlag,
                    m_mappingFenceValue, m_mappingFenceCompleted, submitter, monitor,
                    flusher, m_monitorFenceFlag, m_mappingCommandQueue, executed, notified >>
    /\ UNCHANGED << mapper, packed >>

\* the submit thread: m_submitFlag.Wait() returns and SubmitThread starts its loop
SubmitWait ==
    /\ submitter.pc = "wait"
    /\ m_submitFlag
    /\ m_mappingFenceValue < MaxMappingFence
    /\ m_submitFlag' = FALSE
    /\ submitter' = [ pc |-> "scan", i |-> 0, signalMap |-> FALSE ]
    /\ UNCHANGED << resourceVars, m_updateLists, m_updateListFreeCount,
                    m_updateListAllocIndex, m_mappingFenceValue, m_mappingFenceCompleted,
                    allocator, monitor, flusher, m_monitorFenceFlag, m_mappingCommandQueue,
                    executed, notified >>
    /\ UNCHANGED << mapper, packed >>

\* case STATE_SUBMITTED of SubmitThread: the state the UpdateList moves to
SubmittedNext(u) ==
    IF GetNumStandardUpdates(u) > 0 THEN "STATE_UPLOADING"
    ELSE IF GetNumPackedUpdates(u) = 0 THEN "STATE_COPY_PENDING"
    ELSE "STATE_PACKED_MAPPING"

\* SubmitThread: one iteration of the loop over m_updateLists, up to the write of the
\* state: the fence value is recorded, UnMap or MapPackedMips is queued
SubmitCase ==
    /\ submitter.pc = "scan"
    /\ submitter.i < NumStreamingBatches
    /\ LET i == submitter.i
           u == m_updateLists[i]
       IN  IF u.m_executionState = "STATE_SUBMITTED"
           THEN /\ m_updateLists' = [ m_updateLists EXCEPT
                       ![i].m_mappingFenceValue = m_mappingFenceValue,
                       ![i].m_executionState = SubmittedNext(u) ]
                /\ m_mappingCommandQueue' = m_mappingCommandQueue
                       \o (IF GetNumEvictions(u) > 0
                           THEN << [ command |-> "UnMap", list |-> i, value |-> 0 ] >>
                           ELSE << >>)
                       \o (IF SubmittedNext(u) = "STATE_PACKED_MAPPING"
                           THEN << [ command |-> "MapPackedMips", list |-> i, value |-> 0 ] >>
                           ELSE << >>)
                /\ submitter' = IF SubmittedNext(u) = "STATE_UPLOADING"
                                THEN [ submitter EXCEPT !.pc = "map", !.signalMap = TRUE ]
                                ELSE [ submitter EXCEPT !.i = @ + 1, !.signalMap = TRUE ]
           ELSE /\ submitter' = [ submitter EXCEPT !.i = @ + 1 ]
                /\ UNCHANGED << m_updateLists, m_mappingCommandQueue >>
    /\ UNCHANGED << resourceVars, m_updateListFreeCount, m_updateListAllocIndex,
                    m_submitFlag, m_mappingFenceValue, m_mappingFenceCompleted, allocator,
                    monitor, flusher, m_monitorFenceFlag, executed, notified >>
    /\ UNCHANGED << mapper, packed >>

\* SubmitThread: m_mappingUpdater.Map, after the write of STATE_UPLOADING
SubmitMap ==
    /\ submitter.pc = "map"
    /\ m_mappingCommandQueue' = Append(m_mappingCommandQueue,
           [ command |-> "Map", list |-> submitter.i, value |-> 0 ])
    /\ submitter' = [ submitter EXCEPT !.pc = "scan", !.i = @ + 1 ]
    /\ UNCHANGED << resourceVars, uploaderVars, allocator, monitor, flusher,
                    m_monitorFenceFlag, executed, notified >>
    /\ UNCHANGED << mapper, packed >>

\* SubmitThread: after the loop, Signal on the mapping queue and m_mappingFenceValue++
SubmitSignal ==
    /\ submitter.pc = "scan"
    /\ submitter.i >= NumStreamingBatches
    /\ IF submitter.signalMap
       THEN /\ m_mappingCommandQueue' = Append(m_mappingCommandQueue,
                   [ command |-> "Signal", list |-> nullptr, value |-> m_mappingFenceValue ])
            /\ m_mappingFenceValue' = m_mappingFenceValue + 1
       ELSE UNCHANGED << m_mappingCommandQueue, m_mappingFenceValue >>
    /\ submitter' = [ pc |-> "wait", i |-> 0, signalMap |-> FALSE ]
    /\ UNCHANGED << resourceVars, m_updateLists, m_updateListFreeCount,
                    m_updateListAllocIndex, m_submitFlag, m_mappingFenceCompleted,
                    allocator, monitor, flusher, m_monitorFenceFlag, executed, notified >>
    /\ UNCHANGED << mapper, packed >>

\* the mapping queue executes its oldest command; a Signal sets the completed value
\* of the mapping fence
MappingQueueExecute ==
    /\ m_mappingCommandQueue # << >>
    /\ LET c == Head(m_mappingCommandQueue)
       IN  IF c.command = "Signal"
           THEN /\ m_mappingFenceCompleted' = c.value
                /\ UNCHANGED executed
           ELSE /\ executed' = [ executed EXCEPT ![c.list] = @ \cup { c.command } ]
                /\ UNCHANGED m_mappingFenceCompleted
    /\ m_mappingCommandQueue' = Tail(m_mappingCommandQueue)
    /\ UNCHANGED << resourceVars, m_updateLists, m_updateListFreeCount,
                    m_updateListAllocIndex, m_submitFlag, m_mappingFenceValue, allocator,
                    submitter, monitor, flusher, m_monitorFenceFlag, notified >>
    /\ UNCHANGED << mapper, packed >>

\* the file streamer, handed the UpdateList by StreamPackedMips, has issued its copy
StreamerCopyPacked(i) ==
    /\ m_updateLists[i].m_executionState = "STATE_UPLOADING"
    /\ GetNumPackedUpdates(m_updateLists[i]) > 0
    /\ ~m_updateLists[i].m_copyFenceValid
    /\ m_updateLists' = [ m_updateLists EXCEPT ![i].m_copyFenceValid = TRUE ]
    /\ UNCHANGED << resourceVars, m_updateListFreeCount, m_updateListAllocIndex,
                    m_submitFlag, m_mappingFenceValue, m_mappingFenceCompleted, threadVars >>

\* a variant of MonitorNext that takes an UpdateList whose packed mips are mapped
\* straight to STATE_COPY_PENDING
MonitorNextSkipUploading(u) ==
    IF /\ u.m_executionState = "STATE_PACKED_MAPPING"
       /\ u.m_mappingFenceValue <= m_mappingFenceCompleted
    THEN "STATE_COPY_PENDING"
    ELSE IF u.m_executionState = "STATE_UPLOADING" /\ u.m_copyFenceValid
         THEN "STATE_COPY_PENDING"
         ELSE u.m_executionState

\* cases STATE_PACKED_MAPPING and STATE_UPLOADING of FenceMonitorThread: the state
\* the UpdateList moves to
MonitorNext(u) ==
    IF /\ u.m_executionState = "STATE_PACKED_MAPPING"
       /\ u.m_mappingFenceValue <= m_mappingFenceCompleted
    THEN "STATE_UPLOADING"
    ELSE IF u.m_executionState = "STATE_UPLOADING" /\ u.m_copyFenceValid
         THEN "STATE_COPY_PENDING"
         ELSE u.m_executionState

\* FenceMonitorThread: one iteration of the loop over m_updateLists for an UpdateList
\* that is not found complete
MonitorCase ==
    /\ monitor.pc = "scan"
    /\ monitor.i < NumStreamingBatches
    /\ ~(/\ m_updateLists[monitor.i].m_executionState = "STATE_COPY_PENDING"
         /\ CopyPendingComplete(m_updateLists[monitor.i]))
    /\ m_updateLists' = [ m_updateLists EXCEPT
           ![monitor.i].m_executionState = MonitorNext(m_updateLists[monitor.i]) ]
    /\ monitor' = [ monitor EXCEPT !.i = @ + 1 ]
    /\ UNCHANGED << resourceVars, m_updateListFreeCount, m_updateListAllocIndex,
                    m_submitFlag, m_mappingFenceValue, m_mappingFenceCompleted, allocator,
                    submitter, flusher, m_monitorFenceFlag, m_mappingCommandQueue, executed,
                    notified >>
    /\ UNCHANGED << mapper, packed >>

\* FenceMonitorThread: an UpdateList in STATE_COPY_PENDING is found complete;
\* NotifyEvicted, NotifyCopyComplete, NotifyPackedMips
MonitorNotify ==
    /\ monitor.pc = "scan"
    /\ monitor.i < NumStreamingBatches
    /\ m_updateLists[monitor.i].m_executionState = "STATE_COPY_PENDING"
    /\ CopyPendingComplete(m_updateLists[monitor.i])
    /\ LET u == m_updateLists[monitor.i]
       IN  notified' = [ notified EXCEPT ![monitor.i] =
               (IF GetNumEvictions(u) > 0 THEN { "NotifyEvicted" } ELSE { })
               \cup (IF GetNumStandardUpdates(u) > 0 THEN { "NotifyCopyComplete" } ELSE { })
               \cup (IF GetNumPackedUpdates(u) > 0 THEN { "NotifyPackedMips" } ELSE { }) ]
    /\ monitor' = [ monitor EXCEPT !.pc = "free" ]
    /\ UNCHANGED << resourceVars, uploaderVars, allocator, submitter, flusher,
                    m_monitorFenceFlag, m_mappingCommandQueue, executed >>
    /\ UNCHANGED << mapper, packed >>

\* FenceMonitorThread: FreeUpdateList, m_executionState = STATE_FREE
MonitorFreeState ==
    /\ monitor.pc = "free"
    /\ m_updateLists' = [ m_updateLists EXCEPT ![monitor.i].m_executionState = "STATE_FREE" ]
    /\ executed' = [ executed EXCEPT ![monitor.i] = { } ]
    /\ notified' = [ notified EXCEPT ![monitor.i] = { } ]
    /\ monitor' = [ monitor EXCEPT !.pc = "fetch_add" ]
    /\ UNCHANGED << resourceVars, m_updateListFreeCount, m_updateListAllocIndex,
                    m_submitFlag, m_mappingFenceValue, m_mappingFenceCompleted, allocator,
                    submitter, flusher, m_monitorFenceFlag, m_mappingCommandQueue >>
    /\ UNCHANGED << mapper, packed >>

\* FenceMonitorThread: FreeUpdateList, m_updateListFreeCount.fetch_add(1)
MonitorFetchAdd ==
    /\ monitor.pc = "fetch_add"
    /\ m_updateListFreeCount' = m_updateListFreeCount + 1
    /\ monitor' = [ monitor EXCEPT !.pc = "scan", !.i = @ + 1 ]
    /\ UNCHANGED << resourceVars, m_updateLists, m_updateListAllocIndex, m_submitFlag,
                    m_mappingFenceValue, m_mappingFenceCompleted, allocator, submitter,
                    flusher, m_monitorFenceFlag, m_mappingCommandQueue, executed, notified >>
    /\ UNCHANGED << mapper, packed >>

\* the fence monitor thread after FenceMonitorThread returned: it waits on
\* m_monitorFenceFlag if every UpdateList is counted free, and runs again otherwise
MonitorEnd ==
    /\ monitor.pc = "scan"
    /\ monitor.i >= NumStreamingBatches
    /\ monitor' = IF NumStreamingBatches = m_updateListFreeCount
                  THEN [ pc |-> "wait", i |-> 0 ]
                  ELSE [ pc |-> "scan", i |-> 0 ]
    /\ UNCHANGED << resourceVars, uploaderVars, allocator, submitter, flusher,
                    m_monitorFenceFlag, m_mappingCommandQueue, executed, notified >>
    /\ UNCHANGED << mapper, packed >>

\* the fence monitor thread: m_monitorFenceFlag.Wait() returns
MonitorWait ==
    /\ monitor.pc = "wait"
    /\ m_monitorFenceFlag
    /\ m_monitorFenceFlag' = FALSE
    /\ monitor' = [ pc |-> "scan", i |-> 0 ]
    /\ UNCHANGED << resourceVars, uploaderVars, allocator, submitter, flusher,
                    m_mappingCommandQueue, executed, notified >>
    /\ UNCHANGED << mapper, packed >>

\* FlushCommands is called
FlushCommandsCall ==
    /\ flusher \in { "idle", "returned" }
    /\ flusher' = "spin"
    /\ UNCHANGED << resourceVars, uploaderVars, allocator, submitter, monitor,
                    m_monitorFenceFlag, m_mappingCommandQueue, executed, notified >>
    /\ UNCHANGED << mapper, packed >>

\* a variant of FlushCommandsReturn that returns as soon as one UpdateList is counted
\* free
FlushCommandsReturnAnyFree ==
    /\ flusher = "spin"
    /\ IsPositive(m_updateListFreeCount)
    /\ flusher' = "returned"
    /\ UNCHANGED << resourceVars, uploaderVars, allocator, submitter, monitor,
                    m_monitorFenceFlag, m_mappingCommandQueue, executed, notified >>
    /\ UNCHANGED << mapper, packed >>

\* FlushCommands: the loop while (m_updateListFreeCount.load() < m_updateLists.size())
\* ends and the function returns
FlushCommandsReturn ==
    /\ flusher = "spin"
    /\ ~IsLess(m_updateListFreeCount, NumStreamingBatches)
    /\ flusher' = "returned"
    /\ UNCHANGED << resourceVars, uploaderVars, allocator, submitter, monitor,
                    m_monitorFenceFlag, m_mappingCommandQueue, executed, notified >>
    /\ UNCHANGED << mapper, packed >>

NextDU ==
    \/ \E a \in Allocators : AllocateLoad(a)
    \/ \E a \in Allocators : AllocateFetchSub(a)
    \/ \E a \in Allocators : AllocateLoop(a)
    \/ \E a \in Allocators : AllocateCompareExchange(a)
    \/ \E a \in Allocators : AllocateReset(a)
    \/ \E a \in Allocators : \E payload \in Payloads : SubmitUpdateListState(a, payload)
    \/ \E a \in Allocators : SubmitUpdateListSet(a)
    \/ \E a \in Allocators : FreeUpdateListState(a)
    \/ \E a \in Allocators : FreeUpdateListFetchAdd(a)
    \/ SubmitWait
    \/ SubmitCase
    \/ SubmitMap
    \/ SubmitSignal
    \/ MappingQueueExecute
    \/ \E i \in Lists : StreamerCopy(i)
    \/ \E i \in Lists : StreamerCopyPacked(i)
    \/ \E i \in Lists : StreamerComplete(i)
    \/ MonitorCase
    \/ MonitorNotify
    \/ MonitorFreeState
    \/ MonitorFetchAdd
    \/ MonitorEnd
    \/ MonitorWait
    \/ FlushCommandsCall
    \/ FlushCommandsReturn

\* the program has one caller of AllocateUpdateList, the thread that processes
\* feedback (QueueTiles and InitPackedMips)
InitDU ==
    /\ InitState
    /\ packed = PackedMipsInit(0)
    /\ allocator = [ a \in 1 .. NumAllocators |->
                       [ pc |-> IF a = 1 THEN "idle" ELSE "absent",
                         i |-> 0, index |-> 0, pUpdateList |-> nullptr ] ]

SpecDU == InitDU /\ [][NextDU]_vars

\* ------------------------------------------------------------------------
\* the DataUploader under fair scheduling: the threads of StartThreads run for ever,
\* the mapping queue and the file streamer complete what they were given, and a
\* caller inside SubmitUpdateList returns from it
\* ------------------------------------------------------------------------

\* the submit thread signals the mapping fence at most once for the run it is in and
\* once more for every UpdateList that is allocated or submitted: a call of
\* AllocateUpdateList starts only while the fence values of the model suffice for
\* the run that will find its UpdateList
FenceValuesSuffice ==
    m_mappingFenceValue
        + Cardinality({ i \in Lists : m_updateLists[i].m_executionState
                                          \in { "STATE_ALLOCATED", "STATE_SUBMITTED" } })
        + (IF submitter.pc = "wait" THEN 0 ELSE 1)
        < MaxMappingFence

NextDUFair ==
    \/ \E a \in Allocators : FenceValuesSuffice /\ AllocateLoad(a)
    \/ \E a \in Allocators : AllocateFetchSub(a)
    \/ \E a \in Allocators : AllocateLoop(a)
    \/ \E a \in Allocators : AllocateCompareExchange(a)
    \/ \E a \in Allocators : AllocateReset(a)
    \/ \E a \in Allocators : \E payload \in { p \in Payloads : p.m_evictCoords # << >>
                                                                 \/ p.m_numPackedMips > 0 } :
           SubmitUpdateListState(a, payload)
    \/ \E a \in Allocators : SubmitUpdateListSet(a)
    \/ \E a \in Allocators : FreeUpdateListState(a)
    \/ \E a \in Allocators : FreeUpdateListFetchAdd(a)
    \/ SubmitWait
    \/ SubmitCase
    \/ SubmitMap
    \/ SubmitSignal
    \/ MappingQueueExecute
    \/ \E i \in Lists : StreamerCopy(i)
    \/ \E i \in Lists : StreamerCopyPacked(i)
    \/ \E i \in Lists : StreamerComplete(i)
    \/ MonitorCase
    \/ MonitorNotify
    \/ MonitorFreeState
    \/ MonitorFetchAdd
    \/ MonitorEnd
    \/ MonitorWait

SpecDUFair ==
    /\ InitDU
    /\ [][NextDUFair]_vars
    /\ WF_vars(SubmitWait \/ SubmitCase \/ SubmitMap \/ SubmitSignal)
    /\ WF_vars(MonitorCase \/ MonitorNotify \/ MonitorFreeState \/ MonitorFetchAdd
                   \/ MonitorEnd \/ MonitorWait)
    /\ WF_vars(MappingQueueExecute)
    /\ \A i \in Lists : WF_vars(StreamerCopy(i) \/ StreamerCopyPacked(i) \/ StreamerComplete(i))
    /\ \A a \in Allocators : WF_vars(SubmitUpdateListSet(a))

\* several callers of AllocateUpdateList, stepped one atomic operation at a time,
\* next to the submit thread, the mapping queue, the file streamer and the fence
\* monitor thread; the callers submit evictions
EvictionPayloads ==
    { payload \in Payloads : payload.m_numPackedMips = 0 /\ payload.m_coords = << >> }

NextAllocators ==
    \/ \E a \in Allocators : AllocateLoad(a)
    \/ \E a \in Allocators : AllocateFetchSub(a)
    \/ \E a \in Allocators : AllocateLoop(a)
    \/ \E a \in Allocators : AllocateCompareExchange(a)
    \/ \E a \in Allocators : AllocateReset(a)
    \/ \E a \in Allocators : \E payload \in EvictionPayloads :
           SubmitUpdateListState(a, payload)
    \/ \E a \in Allocators : SubmitUpdateListSet(a)
    \/ \E a \in Allocators : FreeUpdateListState(a)
    \/ \E a \in Allocators : FreeUpdateListFetchAdd(a)
    \/ SubmitThread
    \/ MappingQueueSignal
    \/ FenceMonitorThread

SpecAllocators == Init /\ [][NextAllocators]_vars

\* ------------------------------------------------------------------------
\* UpdateMinMipMap at the granularity of its reads of m_tileResidencyChanged and of the
\* tile residency, running against the notifications of the fence monitor thread. The
\* thread that runs ProcessFeedback and QueueTiles writes the reference counts and the
\* residencies Loading and Evicting concurrently
\* ------------------------------------------------------------------------
\* if (!m_tileResidencyChanged) return;
MapLoad ==
    /\ UNCHANGED packed
    /\ mapper.pc = "idle"
    /\ m_tileResidencyChanged
    /\ mapper' = [ mapper EXCEPT !.pc = "clear" ]
    /\ UNCHANGED << resourceVars, uploaderVars, allocator, submitter, monitor, flusher,
                    m_monitorFenceFlag, m_mappingCommandQueue, executed, notified >>

\* m_tileResidencyChanged = false;
MapClear ==
    /\ UNCHANGED packed
    /\ mapper.pc = "clear"
    /\ m_tileResidencyChanged' = FALSE
    /\ mapper' = [ mapper EXCEPT !.pc = "refs" ]
    /\ UNCHANGED << residencyVars, m_minMipMap, feedbackVars, m_heapFree, framesSinceAppend,
                    uploaderVars, allocator, submitter, monitor, flusher,
                    m_monitorFenceFlag, m_mappingCommandQueue, executed, notified >>

\* if (m_tileMappingState.GetAnyRefCount()) ... else memset(m_minMipMap, m_maxMip)
MapAnyRefCount ==
    /\ UNCHANGED packed
    /\ mapper.pc = "refs"
    /\ IF GetAnyRefCount
       THEN /\ mapper' = [ mapper EXCEPT !.pc = "min" ]
            /\ UNCHANGED m_minMipMap
       ELSE /\ mapper' = [ mapper EXCEPT !.pc = "copy" ]
            /\ m_minMipMap' = [ r \in Regions |-> m_maxMip ]
    /\ UNCHANGED << residencyVars, m_tileResidencyChanged, feedbackVars, m_heapFree,
                    framesSinceAppend, uploaderVars, allocator, submitter, monitor,
                    flusher, m_monitorFenceFlag, m_mappingCommandQueue, executed, notified >>

\* UINT8 minResidentMip = m_tileMappingState.GetMinResidentMip(); tileIndex = 0
MapMinResidentMip ==
    /\ UNCHANGED packed
    /\ mapper.pc = "min"
    /\ mapper' = [ mapper EXCEPT !.pc = "region", !.tileIndex = 0,
                                 !.minResidentMip = GetMinResidentMip ]
    /\ UNCHANGED << resourceVars, uploaderVars, allocator, submitter, monitor, flusher,
                    m_monitorFenceFlag, m_mappingCommandQueue, executed, notified >>

\* the head of the loops over y, x: s = max(minResidentMip, m_minMipMap[tileIndex])
MapRegion ==
    /\ UNCHANGED packed
    /\ mapper.pc = "region"
    /\ IF mapper.tileIndex < Len(RegionSeq)
       THEN LET s == Max(mapper.minResidentMip, m_minMipMap[RegionSeq[mapper.tileIndex + 1]])
            IN  mapper' = [ mapper EXCEPT !.pc = "walk", !.s = s, !.minMip = s ]
       ELSE mapper' = [ mapper EXCEPT !.pc = "copy" ]
    /\ UNCHANGED << resourceVars, uploaderVars, allocator, submitter, monitor, flusher,
                    m_monitorFenceFlag, m_mappingCommandQueue, executed, notified >>

\* one iteration of the while loop over s: one read of a tile residency; the loop
\* ends with m_minMipMap[tileIndex] = minMip; tileIndex++
MapWalk ==
    /\ UNCHANGED packed
    /\ mapper.pc = "walk"
    /\ LET r == RegionSeq[mapper.tileIndex + 1]
           written == [ m_minMipMap EXCEPT ![r] = mapper.minMip ]
       IN  IF mapper.s > 0
           THEN IF GetResident(Shr(r[1], mapper.s - 1), Shr(r[2], mapper.s - 1), mapper.s - 1)
                THEN /\ mapper' = [ mapper EXCEPT !.s = @ - 1, !.minMip = mapper.s - 1 ]
                     /\ UNCHANGED m_minMipMap
                ELSE /\ mapper' = [ mapper EXCEPT !.pc = "region", !.tileIndex = @ + 1 ]
                     /\ m_minMipMap' = written
           ELSE /\ mapper' = [ mapper EXCEPT !.pc = "region", !.tileIndex = @ + 1 ]
                /\ m_minMipMap' = written
    /\ UNCHANGED << residencyVars, m_tileResidencyChanged, feedbackVars, m_heapFree,
                    framesSinceAppend, uploaderVars, allocator, submitter, monitor,
                    flusher, m_monitorFenceFlag, m_mappingCommandQueue, executed, notified >>

\* a variant of MapCopy that clears m_tileResidencyChanged again when the map is done
MapCopyClear ==
    /\ UNCHANGED packed
    /\ mapper.pc = "copy"
    /\ mapper' = [ pc |-> "idle", tileIndex |-> 0, s |-> 0, minMip |-> 0,
                   minResidentMip |-> 0 ]
    /\ m_tileResidencyChanged' = FALSE
    /\ UNCHANGED << residencyVars, m_minMipMap, feedbackVars, m_heapFree, framesSinceAppend,
                    uploaderVars, allocator, submitter, monitor, flusher,
                    m_monitorFenceFlag, m_mappingCommandQueue, executed, notified >>

\* memcpy(pResidencyMap, m_minMipMap.data(), m_minMipMap.size()); return
MapCopy ==
    /\ UNCHANGED packed
    /\ mapper.pc = "copy"
    /\ mapper' = [ pc |-> "idle", tileIndex |-> 0, s |-> 0, minMip |-> 0,
                   minResidentMip |-> 0 ]
    /\ UNCHANGED << resourceVars, uploaderVars, allocator, submitter, monitor, flusher,
                    m_monitorFenceFlag, m_mappingCommandQueue, executed, notified >>

\* NotifyCopyComplete, NotifyEvicted: the fence monitor thread writes the terminal
\* residency of a tile of a completed UpdateList
NotifyTile(t) ==
    /\ UNCHANGED packed
    /\ monitor.pc \in { "scan", "notify" }
    /\ m_resident[t] \in { "Loading", "Evicting" }
    /\ m_resident' = [ m_resident EXCEPT ![t] = IF @ = "Loading" THEN "Resident"
                                                ELSE "NotResident" ]
    /\ monitor' = [ monitor EXCEPT !.pc = "notify" ]
    /\ UNCHANGED << m_refcounts, m_heapIndices, m_tileReferences, m_pendingTileLoads,
                    m_mappings, m_minMipMap, m_tileResidencyChanged, feedbackVars,
                    m_heapFree, framesSinceAppend, uploaderVars, allocator, submitter,
                    flusher, m_monitorFenceFlag, m_mappingCommandQueue, executed, notified,
                    mapper >>

\* the notification ends with SetResidencyChanged
NotifyChanged ==
    /\ UNCHANGED packed
    /\ monitor.pc = "notify"
    /\ m_tileResidencyChanged' = TRUE
    /\ monitor' = [ monitor EXCEPT !.pc = "scan" ]
    /\ UNCHANGED << residencyVars, m_minMipMap, feedbackVars, m_heapFree, framesSinceAppend,
                    uploaderVars, allocator, submitter, flusher, m_monitorFenceFlag,
                    m_mappingCommandQueue, executed, notified, mapper >>

\* QueueTiles sets a tile Loading (SetLoading) or Evicting (SetEvicting); the thread
\* that runs it is the caller of AllocateUpdateList
SetTransient(t) ==
    /\ allocator[1].pc = "idle"
    /\ m_resident[t] \in { "NotResident", "Resident" }
    /\ m_resident' = [ m_resident EXCEPT ![t] = IF @ = "NotResident" THEN "Loading"
                                                ELSE "Evicting" ]
    /\ UNCHANGED << m_refcounts, m_heapIndices, m_tileReferences, m_pendingTileLoads,
                    m_mappings, m_minMipMap, m_tileResidencyChanged, feedbackVars,
                    m_heapFree, framesSinceAppend, uploaderVars, threadVars >>

\* ProcessFeedback changes the reference count of a tile (SetMinMip)
ReferenceChange(t) ==
    /\ UNCHANGED packed
    /\ allocator[1].pc \in { "idle", "changed" }
    /\ m_refcounts' = [ m_refcounts EXCEPT ![t] = IF @ = 0 THEN 1 ELSE 0 ]
    /\ allocator' = [ allocator EXCEPT ![1].pc = "changed" ]
    /\ UNCHANGED << m_resident, m_heapIndices, m_tileReferences, m_pendingTileLoads,
                    m_mappings, m_minMipMap, m_tileResidencyChanged, feedbackVars,
                    m_heapFree, framesSinceAppend, uploaderVars, submitter, monitor,
                    flusher, m_monitorFenceFlag, m_mappingCommandQueue, executed, notified,
                    mapper >>

\* ProcessFeedback ends with if (changed) SetResidencyChanged()
FeedbackChanged ==
    /\ UNCHANGED packed
    /\ allocator[1].pc = "changed"
    /\ m_tileResidencyChanged' = TRUE
    /\ allocator' = [ allocator EXCEPT ![1].pc = "idle" ]
    /\ UNCHANGED << residencyVars, m_minMipMap, feedbackVars, m_heapFree, framesSinceAppend,
                    uploaderVars, submitter, monitor, flusher, m_monitorFenceFlag,
                    m_mappingCommandQueue, executed, notified, mapper >>

NextMap ==
    \/ MapLoad
    \/ MapClear
    \/ MapAnyRefCount
    \/ MapMinResidentMip
    \/ MapRegion
    \/ MapWalk
    \/ MapCopy
    \/ \E t \in Tiles : NotifyTile(t)
    \/ NotifyChanged
    \/ \E t \in Tiles : SetTransient(t)
    \/ \E t \in Tiles : ReferenceChange(t)
    \/ FeedbackChanged

SpecMap == Init /\ [][NextMap]_vars

\* ------------------------------------------------------------------------
\* packed mips: InitPackedMips and GetPackedMipsNeedTransition of a resource with
\* NumTilesForPackedMips tiles, next to the DataUploader threads and to another
\* resource that shares the heap and the UpdateLists
\* ------------------------------------------------------------------------
NumTilesForPackedMips == 2

\* the value of the enum PackedMipStatus
StatusValue(status) ==
    LET PackedMipStatus == << "UNINITIALIZED", "HEAP_RESERVED", "REQUESTED",
                              "NEEDS_TRANSITION", "RESIDENT" >>
    IN  CHOOSE k \in 1 .. Len(PackedMipStatus) : PackedMipStatus[k] = status

\* the while loop of InitPackedMips: try to commit some heap space
RECURSIVE ReservePackedMips(_, _, _)
ReservePackedMips(heapIndices, heapFree, numTiles) ==
    IF Len(heapIndices) < numTiles
    THEN LET a == HeapAllocate(heapFree)
         IN  IF a.index # InvalidIndex
             THEN ReservePackedMips(Append(heapIndices, a.index), a.heap, numTiles)
             ELSE [ heapIndices |-> heapIndices, heapFree |-> heapFree,
                    reserved |-> FALSE ]
    ELSE [ heapIndices |-> heapIndices, heapFree |-> heapFree, reserved |-> TRUE ]

\* InitPackedMips returns at once when the copy has been requested; the action is
\* a call before that, up to the call of SubmitUpdateList, which hands the
\* UpdateList to the threads of the DataUploader
InitPackedMips ==
    /\ packed.pc = "idle"
    /\ StatusValue(packed.status) < StatusValue("REQUESTED")
    /\ LET r == IF StatusValue("HEAP_RESERVED") > StatusValue(packed.status)
                THEN ReservePackedMips(packed.heapIndices, m_heapFree, packed.numTiles)
                ELSE [ heapIndices |-> packed.heapIndices, heapFree |-> m_heapFree,
                       reserved |-> TRUE ]
           a == AllocateUpdateList(QueueState)
           ul == a.pUpdateList
       IN  /\ m_heapFree' = r.heapFree
           /\ IF ~r.reserved
              THEN /\ packed' = [ packed EXCEPT !.heapIndices = r.heapIndices ]
                   /\ UNCHANGED uploaderVars
              ELSE IF ul = nullptr
              THEN /\ packed' = [ packed EXCEPT !.heapIndices = r.heapIndices,
                                                !.status = "HEAP_RESERVED" ]
                   /\ m_updateLists' = a.qs.lists
                   /\ m_updateListFreeCount' = a.qs.freeCount
                   /\ m_updateListAllocIndex' = a.qs.allocIndex
                   /\ UNCHANGED << m_submitFlag, m_mappingFenceValue,
                                   m_mappingFenceCompleted >>
              ELSE LET request == [ a.qs EXCEPT !.lists[ul].m_numPackedMips = 1,
                                                !.lists[ul].m_heapIndices = r.heapIndices ]
                       s == SubmitUpdateList(request, ul)
                   IN  /\ packed' = [ packed EXCEPT !.heapIndices = r.heapIndices,
                                                    !.status = "HEAP_RESERVED",
                                                    !.requested = @ + 1,
                                                    !.pc = "submitted" ]
                       /\ m_updateLists' = s.lists
                       /\ m_updateListFreeCount' = s.freeCount
                       /\ m_updateListAllocIndex' = s.allocIndex
                       /\ m_submitFlag' = s.submitFlag
                       /\ UNCHANGED << m_mappingFenceValue, m_mappingFenceCompleted >>
    /\ UNCHANGED << residencyVars, m_minMipMap, m_tileResidencyChanged, feedbackVars,
                    framesSinceAppend, allocator, submitter, monitor, flusher,
                    m_monitorFenceFlag, m_mappingCommandQueue, executed, notified, mapper >>

\* the end of InitPackedMips after SubmitUpdateList: m_packedMipStatus, which is
\* not atomic and which NotifyPackedMips writes in the fence monitor thread, is set
\* to REQUESTED
InitPackedMipsRequested ==
    /\ packed.pc = "submitted"
    /\ packed' = [ packed EXCEPT !.status = "REQUESTED", !.pc = "idle" ]
    /\ UNCHANGED << resourceVars, uploaderVars, allocator, submitter, monitor, flusher,
                    m_monitorFenceFlag, m_mappingCommandQueue, executed, notified, mapper >>

\* GetPackedMipsNeedTransition returns true; a call in another status returns false
\* and changes nothing. The thread that calls InitPackedMips calls it
GetPackedMipsNeedTransition ==
    /\ packed.pc = "idle"
    /\ packed.status = "NEEDS_TRANSITION"
    /\ packed' = [ packed EXCEPT !.status = "RESIDENT", !.transitions = @ + 1 ]
    /\ UNCHANGED << resourceVars, uploaderVars, allocator, submitter, monitor, flusher,
                    m_monitorFenceFlag, m_mappingCommandQueue, executed, notified, mapper >>

\* the UpdateLists in flight that carry the packed mips
PackedUpdateLists ==
    { i \in DOMAIN m_updateLists :
        /\ m_updateLists[i].m_executionState # "STATE_FREE"
        /\ GetNumPackedUpdates(m_updateLists[i]) > 0 }

\* another resource of the heap loads a tile: it allocates a page
OtherResourceAllocate ==
    /\ GetNumFree(m_heapFree) > 0
    /\ m_heapFree' = HeapAllocate(m_heapFree).heap
    /\ UNCHANGED << residencyVars, m_minMipMap, m_tileResidencyChanged, feedbackVars,
                    framesSinceAppend, uploaderVars, threadVars >>

\* another resource of the heap evicts a tile: it frees the page, which is neither
\* free nor reserved for the packed mips
OtherResourceFree ==
    /\ \E i \in 0 .. HeapSizeTiles - 1 :
           /\ \A k \in 1 .. Len(m_heapFree) : m_heapFree[k] # i
           /\ \A k \in 1 .. Len(packed.heapIndices) : packed.heapIndices[k] # i
           /\ m_heapFree' = HeapFree(m_heapFree, i)
    /\ UNCHANGED << residencyVars, m_minMipMap, m_tileResidencyChanged, feedbackVars,
                    framesSinceAppend, uploaderVars, threadVars >>

\* another resource takes an UpdateList and submits it with an eviction
OtherResourceSubmit ==
    /\ LET a == AllocateUpdateList(QueueState)
           ul == a.pUpdateList
       IN  /\ ul # nullptr
           /\ LET s == SubmitUpdateList(
                           [ a.qs EXCEPT !.lists[ul].m_evictCoords =
                                             << Coord(0, 0, NumStandardMips - 1) >> ], ul)
              IN  /\ m_updateLists' = s.lists
                  /\ m_updateListFreeCount' = s.freeCount
                  /\ m_updateListAllocIndex' = s.allocIndex
                  /\ m_submitFlag' = s.submitFlag
    /\ UNCHANGED << resourceVars, m_mappingFenceValue, m_mappingFenceCompleted, threadVars >>

InitPacked ==
    /\ InitState
    /\ allocator = [ a \in 1 .. NumAllocators |->
                       [ pc |-> "idle", i |-> 0, index |-> 0, pUpdateList |-> nullptr ] ]
    /\ packed = PackedMipsInit(NumTilesForPackedMips)

NextPacked ==
    \/ InitPackedMips
    \/ InitPackedMipsRequested
    \/ GetPackedMipsNeedTransition
    \/ OtherResourceAllocate
    \/ OtherResourceFree
    \/ OtherResourceSubmit
    \/ SubmitThread
    \/ MappingQueueSignal
    \/ \E i \in 0 .. NumStreamingBatches - 1 : StreamerCopyPacked(i)
    \/ \E i \in 0 .. NumStreamingBatches - 1 : StreamerComplete(i)
    \/ FenceMonitorThread

SpecPacked == InitPacked /\ [][NextPacked]_vars

\* the map UpdateMinMipMap writes when it runs undisturbed in the current state
MinMipMapNow ==
    IF GetAnyRefCount
    THEN [ r \in Regions |->
             LET s == Max(GetMinResidentMip, m_minMipMap[r])
             IN  MinMipWalk(r[1], r[2], s, s) ]
    ELSE [ r \in Regions |-> m_maxMip ]

\* ------------------------------------------------------------------------
\* properties of the tile residency engine
\* ------------------------------------------------------------------------

\* C1: the heap index of a tile is valid if and only if the tile is Resident or
\* Loading; it becomes valid exactly in the steps in which the tile enters Loading
\* and is reset to InvalidIndex exactly in the steps in which the tile enters Evicting
C1_HeapIndexValidIffMapped ==
    /\ [](\A t \in Tiles : (m_heapIndices[t] # InvalidIndex)
                             <=> (m_resident[t] \in { "Resident", "Loading" }))
    /\ [][\A t \in Tiles :
            /\ (m_heapIndices[t] = InvalidIndex /\ m_heapIndices'[t] # InvalidIndex)
                 <=> (m_resident[t] # "Loading" /\ m_resident'[t] = "Loading")
            /\ (m_heapIndices[t] # InvalidIndex /\ m_heapIndices'[t] = InvalidIndex)
                 <=> (m_resident[t] # "Evicting" /\ m_resident'[t] = "Evicting")]_vars

\* a tile is being loaded into a heap page while another, whose page was freed, is
\* being evicted
C1_Witness ==
    /\ \E t \in Tiles : m_resident[t] = "Loading" /\ m_heapIndices[t] # InvalidIndex
    /\ \E t \in Tiles : m_resident[t] = "Evicting" /\ m_heapIndices[t] = InvalidIndex

\* C2: for each region of the published min mip map with value m, every tile of the
\* chain (x >> k, y >> k, k), k in m .. m_maxMip - 1, is Resident
C2_PublishedChainResident ==
    \A r \in Regions : \A k \in m_minMipMap[r] .. m_maxMip - 1 :
        m_resident[Coord(Shr(r[1], k), Shr(r[2], k), k)] = "Resident"

\* C3: a tile appended to the eviction delay is not set Evicting (put on the evict
\* list of an UpdateList) before NextFrame has been called NumSwapBuffers times
\* after the append
C3_EvictionDelayed ==
    [][\A t \in Tiles :
         (m_resident[t] # "Evicting" /\ m_resident'[t] = "Evicting")
            => (t \in Pending(m_mappings) /\ framesSinceAppend[t] >= NumSwapBuffers)]_vars

\* an UpdateList carries the eviction of a tile
C3_Witness ==
    \E i \in DOMAIN m_updateLists :
        /\ m_updateLists[i].m_executionState = "STATE_SUBMITTED"
        /\ \E k \in 1 .. Len(m_updateLists[i].m_evictCoords) :
               m_resident[m_updateLists[i].m_evictCoords[k]] = "Evicting"

\* C4 as stated: in every state a Loading tile has a positive reference count and an
\* Evicting tile has a reference count of zero
C4_TransientMatchesRefCount ==
    \A t \in Tiles :
        /\ m_resident[t] = "Loading" => m_refcounts[t] > 0
        /\ m_resident[t] = "Evicting" => m_refcounts[t] = 0

\* C4 as amended: a tile has a positive reference count in the step that sets it
\* Loading and a reference count of zero in the step that sets it Evicting
C4_TransientSetByRefCount ==
    [][\A t \in Tiles :
         /\ (m_resident[t] # "Loading" /\ m_resident'[t] = "Loading")
               => (m_refcounts[t] > 0 /\ m_refcounts'[t] > 0)
         /\ (m_resident[t] # "Evicting" /\ m_resident'[t] = "Evicting")
               => (m_refcounts[t] = 0 /\ m_refcounts'[t] = 0)]_vars

\* a tile carried by an UpdateList for loading lost all its references meanwhile
C4_Witness ==
    \E i \in DOMAIN m_updateLists :
        /\ m_updateLists[i].m_executionState # "STATE_FREE"
        /\ \E k \in 1 .. Len(m_updateLists[i].m_coords) :
               /\ m_resident[m_updateLists[i].m_coords[k]] = "Loading"
               /\ m_refcounts[m_updateLists[i].m_coords[k]] = 0

\* C5: every tile with a positive reference count that is NotResident has an entry
\* in m_pendingTileLoads or is carried by an UpdateList that is not free
C5_WantedTileQueued ==
    \A t \in Tiles :
        (m_refcounts[t] > 0 /\ m_resident[t] = "NotResident")
           => \/ \E k \in 1 .. Len(m_pendingTileLoads) : m_pendingTileLoads[k] = t
              \/ \E i \in DOMAIN m_updateLists :
                     /\ m_updateLists[i].m_executionState # "STATE_FREE"
                     /\ \E k \in 1 .. Len(m_updateLists[i].m_coords) :
                            m_updateLists[i].m_coords[k] = t

\* a wanted tile waits in m_pendingTileLoads after QueueTiles has started a load
C5_Witness ==
    /\ \E t \in Tiles : m_resident[t] = "Loading"
    /\ \E k \in 1 .. Len(m_pendingTileLoads) :
           /\ m_refcounts[m_pendingTileLoads[k]] > 0
           /\ m_resident[m_pendingTileLoads[k]] = "NotResident"

\* C6: every Resident tile with a reference count of zero has an entry in some
\* bucket of the eviction delay
C6_UnwantedTileQueued ==
    \A t \in Tiles :
        (m_resident[t] = "Resident" /\ m_refcounts[t] = 0) => t \in Pending(m_mappings)

\* a resident tile whose region moved to a coarser mip waits in the eviction delay
\* while a coarser tile is still referenced
C6_Witness ==
    /\ \E t \in Tiles : m_refcounts[t] > 0
    /\ \E t \in Pending(m_mappings) : m_resident[t] = "Resident" /\ m_refcounts[t] = 0

\* C7: no tile is both in m_pendingTileLoads and in a bucket of the eviction delay;
\* every pending load has a positive reference count and every pending eviction has
\* a reference count of zero
C7_PendingListsDisjoint ==
    /\ \A k \in 1 .. Len(m_pendingTileLoads) :
           /\ m_refcounts[m_pendingTileLoads[k]] > 0
           /\ m_pendingTileLoads[k] \notin Pending(m_mappings)
    /\ \A t \in Pending(m_mappings) : m_refcounts[t] = 0

\* pending loads and pending evictions exist at the same time
C7_Witness ==
    /\ Len(m_pendingTileLoads) > 0
    /\ Pending(m_mappings) # { }

\* C8: a tile below the coarsest standard mip is set Loading only when the coarser
\* tile it depends on is Resident or has been set Loading
C8_CoarserLoadedFirst ==
    [][\A t \in Tiles :
         (t[3] < m_maxMip - 1 /\ m_resident[t] # "Loading" /\ m_resident'[t] = "Loading")
            => m_resident'[Coord(Shr(t[1], 1), Shr(t[2], 1), t[3] + 1)]
                   \in { "Resident", "Loading" }]_vars

\* C9: in the step that sets a tile Evicting its reference count is zero and so is
\* the reference count of every finer tile it covers
C9_EvictedTileUnreferenced ==
    [][\A t \in Tiles :
         (m_resident[t] # "Evicting" /\ m_resident'[t] = "Evicting")
            => \A f \in Tiles :
                   (/\ f[3] <= t[3]
                    /\ Shr(f[1], t[3] - f[3]) = t[1]
                    /\ Shr(f[2], t[3] - f[3]) = t[2]) => m_refcounts'[f] = 0]_vars

\* a tile that covers finer tiles is being evicted
C9_Witness ==
    \E t \in Tiles : t[3] > 0 /\ m_resident[t] = "Evicting" /\ m_refcounts[t] = 0

\* C10: a tile of mip s + 1 is set Evicting only when none of the tiles of mip s it
\* covers is Resident or Loading
C10_FinerEvictedFirst ==
    [][\A t \in Tiles :
         (t[3] > 0 /\ m_resident[t] # "Evicting" /\ m_resident'[t] = "Evicting")
            => \A f \in Tiles :
                   (/\ f[3] = t[3] - 1
                    /\ Shr(f[1], 1) = t[1]
                    /\ Shr(f[2], 1) = t[2]) => m_resident'[f] \notin { "Resident", "Loading" }]_vars

\* C11: a feedback pass that references again a Resident tile waiting in the eviction
\* delay removes the tile from every bucket; a Resident tile with a positive
\* reference count stays Resident, keeps its heap index and is put on no UpdateList
C11_RescuedTileStaysMapped ==
    [][\A t \in Tiles :
         /\ (/\ m_resident[t] = "Resident"
             /\ t \in Pending(m_mappings)
             /\ m_refcounts[t] = 0
             /\ m_refcounts'[t] > 0) => t \notin Pending(m_mappings')
         /\ (m_resident[t] = "Resident" /\ m_refcounts[t] > 0)
               => /\ m_resident'[t] = "Resident"
                  /\ m_heapIndices'[t] = m_heapIndices[t]
                  /\ \A i \in DOMAIN m_updateLists :
                         m_updateLists'[i].m_executionState = "STATE_SUBMITTED"
                            => /\ \A k \in 1 .. Len(m_updateLists'[i].m_coords) :
                                      m_updateLists'[i].m_coords[k] # t
                               /\ \A k \in 1 .. Len(m_updateLists'[i].m_evictCoords) :
                                      m_updateLists'[i].m_evictCoords[k] # t]_vars

\* a Resident tile that waited in an older bucket of the eviction delay has been
\* referenced again: AddTileRef queued it in m_pendingTileLoads and it has left the
\* eviction delay, in which another tile still waits
C11_Witness ==
    \E k \in 1 .. Len(m_pendingTileLoads) :
        /\ m_resident[m_pendingTileLoads[k]] = "Resident"
        /\ m_refcounts[m_pendingTileLoads[k]] > 0
        /\ m_pendingTileLoads[k] \notin Pending(m_mappings)
        /\ m_heapIndices[m_pendingTileLoads[k]] # InvalidIndex
        /\ Len(GetReadyToEvict(m_mappings)) > 0

\* C12: a feedback pass that leaves a pending load with a reference count of zero
\* removes it from m_pendingTileLoads and touches no residency, heap page or
\* UpdateList; a NotResident tile with a reference count of zero is not loaded
C12_AbandonedLoadNotStarted ==
    [][\A t \in Tiles :
         /\ (/\ \E k \in 1 .. Len(m_pendingTileLoads) : m_pendingTileLoads[k] = t
             /\ m_resident[t] = "NotResident"
             /\ m_refcounts'[t] = 0)
               => /\ \A k \in 1 .. Len(m_pendingTileLoads') : m_pendingTileLoads'[k] # t
                  /\ UNCHANGED << m_resident, m_heapIndices, m_heapFree, m_updateLists,
                                  m_updateListFreeCount, m_submitFlag >>
         /\ (/\ m_resident[t] = "NotResident"
             /\ m_refcounts[t] = 0
             /\ m_refcounts'[t] = 0)
               => /\ m_resident'[t] = "NotResident"
                  /\ m_heapIndices'[t] = InvalidIndex]_vars

\* feedback requested tiles and a later pass released them all before any UpdateList
\* was allocated: nothing is pending, nothing was loaded and the heap is untouched
C12_Witness ==
    /\ ~m_refCountsZero
    /\ \A t \in Tiles : m_refcounts[t] = 0 /\ m_resident[t] = "NotResident"
    /\ m_pendingTileLoads = << >>
    /\ GetNumFree(m_heapFree) = HeapSizeTiles
    /\ m_updateListAllocIndex = 0
    /\ \A i \in DOMAIN m_updateLists : m_updateLists[i] = EmptyUpdateList

C14_StateEdgesAndOwners ==
    [][\A i \in Lists :
         LET from == m_updateLists[i].m_executionState
             to == m_updateLists'[i].m_executionState
         IN  from # to
               => \/ /\ from = "STATE_FREE" /\ to = "STATE_ALLOCATED"
                     /\ \E a \in Allocators : /\ allocator'[a] # allocator[a]
                                              /\ allocator'[a].pUpdateList = i
                                              /\ submitter' = submitter /\ monitor' = monitor
                  \/ /\ from = "STATE_ALLOCATED" /\ to \in { "STATE_SUBMITTED", "STATE_FREE" }
                     /\ \E a \in Allocators : /\ allocator'[a] # allocator[a]
                                              /\ allocator[a].pUpdateList = i
                                              /\ submitter' = submitter /\ monitor' = monitor
                  \/ /\ from = "STATE_SUBMITTED"
                     /\ to \in { "STATE_UPLOADING", "STATE_COPY_PENDING", "STATE_PACKED_MAPPING" }
                     /\ submitter' # submitter /\ allocator' = allocator /\ monitor' = monitor
                  \/ /\ << from, to >> \in { << "STATE_PACKED_MAPPING", "STATE_UPLOADING" >>,
                                             << "STATE_UPLOADING", "STATE_COPY_PENDING" >>,
                                             << "STATE_COPY_PENDING", "STATE_FREE" >> }
                     /\ monitor' # monitor /\ allocator' = allocator /\ submitter' = submitter]_vars

\* an UpdateList that has been through a whole cycle (its fence value was recorded
\* and it is Free again) and an UpdateList with the packed mips that came from
\* PackedMapping to Uploading, while the caller holds no list
C14_Witness ==
    \E i, j \in Lists :
        /\ m_updateLists[i].m_executionState = "STATE_FREE"
        /\ m_updateLists[i].m_mappingFenceValue > 0
        /\ GetNumStandardUpdates(m_updateLists[i]) > 0
        /\ m_updateLists[j].m_executionState = "STATE_UPLOADING"
        /\ GetNumPackedUpdates(m_updateLists[j]) > 0

\* C15: an UpdateList goes from CopyPending to Free only after its copy has completed
\* (when it carries loads or packed mips), the mapping fence has reached the value
\* recorded for it, the mapping queue has executed the UnMap and Map commands the
\* submit thread queued for it, and its notifications have been delivered
C15_FreeAfterCopyAndMapping ==
    [][\A i \in Lists :
         LET u == m_updateLists[i]
         IN  (u.m_executionState = "STATE_COPY_PENDING"
                /\ m_updateLists'[i].m_executionState = "STATE_FREE")
               => /\ u.m_mappingFenceValue <= m_mappingFenceCompleted
                  /\ u.m_mappingFenceValue < m_mappingFenceValue
                  /\ GetNumStandardUpdates(u) > 0
                        => (u.m_copyCompleted /\ "Map" \in executed[i]
                              /\ "NotifyCopyComplete" \in notified[i])
                  /\ GetNumEvictions(u) > 0
                        => ("UnMap" \in executed[i] /\ "NotifyEvicted" \in notified[i])
                  /\ GetNumPackedUpdates(u) > 0
                        => (u.m_copyCompleted /\ "MapPackedMips" \in executed[i]
                              /\ "NotifyPackedMips" \in notified[i])
                  /\ notified[i] # { }]_vars

\* the fence monitor thread has delivered the notifications of an UpdateList with a
\* load and an eviction and is about to free it, while the submit thread has recorded
\* a later fence value for the other UpdateList
C15_Witness ==
    /\ monitor.pc = "free"
    /\ m_updateLists[monitor.i].m_executionState = "STATE_COPY_PENDING"
    /\ notified[monitor.i] = { "NotifyEvicted", "NotifyCopyComplete" }
    /\ executed[monitor.i] = { "UnMap", "Map" }
    /\ \E j \in Lists : /\ m_updateLists[j].m_executionState = "STATE_COPY_PENDING"
                        /\ m_updateLists[j].m_mappingFenceValue > m_mappingFenceCompleted

\* C16: with several callers in AllocateUpdateList at once, a caller is handed an
\* UpdateList only by a step that finds it STATE_FREE and leaves it
\* STATE_ALLOCATED; no UpdateList is held by two callers; an UpdateList is held exactly
\* while it is STATE_ALLOCATED; and the contents of an UpdateList are reset or filled
\* only by the caller that holds it
C16_OneHolderPerUpdateList ==
    /\ [](\A i \in Lists :
            LET holders == { a \in Allocators : /\ allocator[a].pc \in { "reset", "allocated" }
                                                /\ allocator[a].pUpdateList = i }
            IN  /\ Cardinality(holders) <= 1
                /\ m_updateLists[i].m_executionState = "STATE_ALLOCATED" <=> holders # { })
    /\ [][\A i \in Lists :
            /\ \A a \in Allocators :
                   (allocator'[a].pUpdateList = i /\ allocator[a].pUpdateList # i)
                      => /\ m_updateLists[i].m_executionState = "STATE_FREE"
                         /\ m_updateLists'[i].m_executionState = "STATE_ALLOCATED"
            /\ (\/ m_updateLists'[i].m_coords # m_updateLists[i].m_coords
                \/ m_updateLists'[i].m_heapIndices # m_updateLists[i].m_heapIndices
                \/ m_updateLists'[i].m_evictCoords # m_updateLists[i].m_evictCoords)
                  => /\ m_updateLists[i].m_executionState = "STATE_ALLOCATED"
                     /\ \E a \in Allocators : /\ allocator[a].pUpdateList = i
                                              /\ allocator'[a] # allocator[a]]_vars

\* two callers entered the loop of AllocateUpdateList with one UpdateList free: one
\* holds it and the other has seen every compare-exchange fail
C16_Witness ==
    \E a, b \in Allocators :
        /\ a # b
        /\ allocator[a].pc = "allocated"
        /\ allocator[b].pc = "loop"
        /\ allocator[b].i = NumStreamingBatches
        /\ \E i \in Lists : m_updateLists[i].m_executionState \in
               { "STATE_SUBMITTED", "STATE_COPY_PENDING" }

RoundTrip(pResolvedData) ==
    \A r \in Regions : Min(pResolvedData[r], m_maxMip) = m_tileReferences[r]

\* C18: a ProcessFeedback call that applies a feedback buffer whose every region requests
\* exactly the current tile reference changes no refcount and no tile reference, leaves
\* the pending loads and the eviction-delay ring as they were, does not set the
\* residency-changed flag and does not clear m_refCountsZero; the heap and the UpdateLists
\* are untouched, so the following QueueTiles does what it would have done without the call
C18_RoundTripFeedbackChangesNothing ==
    [][ ~m_setZeroRefCounts =>
            \A fence \in { c \in CompletedFenceValues :
                    SelectFeedback(m_queuedFeedback, 0, 0, 0, c).feedbackIndex # 0 } :
                \A fb \in { f \in FeedbackBuffers : RoundTrip(f) } :
                    ProcessFeedback(fence, fb)
                    => UNCHANGED << m_refcounts, m_tileReferences, m_pendingTileLoads,
                                    m_mappings, m_tileResidencyChanged, m_refCountsZero,
                                    m_resident, m_heapIndices, m_heapFree, uploaderVars >> ]_vars

\* the only feedback ever resolved has been applied (its slot is consumed; an evict-all
\* pass on zeroed reference counts returns before it clears the slots) and
\* m_refCountsZero still holds, with an empty eviction delay and no UpdateList ever
\* allocated: the applied buffer requested the current references
C18_Witness ==
    /\ m_frameFenceValue = 1
    /\ \E i \in DOMAIN m_queuedFeedback :
           /\ ~m_queuedFeedback[i].m_feedbackQueued
           /\ m_queuedFeedback[i].m_renderFenceForFeedback = 0
    /\ m_refCountsZero
    /\ \A t \in Tiles : m_refcounts[t] = 0
    /\ Pending(m_mappings) = {}
    /\ m_updateListAllocIndex = 0
\* C19: a feedback pass with evict-all set (the only step that resets m_setZeroRefCounts)
\* always ends with every tile reference equal to m_maxMip, every reference count zero,
\* no pending load, no queued feedback, every Resident tile in the eviction delay (the
\* newly queued ones in the first bucket) and the residency-changed flag set
C19_EvictAllPassZeroesEverything ==
    [][ (m_setZeroRefCounts /\ ~m_setZeroRefCounts')
            => /\ \A r \in Regions : m_tileReferences'[r] = m_maxMip
               /\ \A t \in Tiles : m_refcounts'[t] = 0
               /\ m_pendingTileLoads' = << >>
               /\ \A i \in DOMAIN m_queuedFeedback : ~m_queuedFeedback'[i].m_feedbackQueued
               /\ \A t \in Tiles : m_resident'[t] = "Resident" => t \in Pending(m_mappings')
               /\ \A t \in Pending(m_mappings') \ Pending(m_mappings) :
                      \E j \in 1 .. Len(m_mappings'[1]) : m_mappings'[1][j] = t
               /\ m_tileResidencyChanged' ]_vars

\* the slots of m_queuedFeedback whose feedback is queued and resolved
ReadyFeedback(completed) ==
    { i \in DOMAIN m_queuedFeedback :
          /\ m_queuedFeedback[i].m_feedbackQueued
          /\ m_queuedFeedback[i].m_renderFenceForFeedback <= completed }

\* C20: a ProcessFeedback call without evict-all selects at most one feedback buffer: a
\* queued buffer whose fence value is the largest of those not above the completed frame
\* fence value, and the call marks that buffer consumed; with no such buffer the call
\* selects none and changes no tile reference, reference count, pending load, eviction
\* delay, queued feedback or flag
C20_LatestReadyFeedbackApplied ==
    /\ [](\A completed \in CompletedFenceValues :
            LET sel == SelectFeedback(m_queuedFeedback, 0, 0, 0, completed)
                ready == ReadyFeedback(completed)
            IN  IF ready = {}
                THEN sel.feedbackIndex = 0 /\ sel.queue = m_queuedFeedback
                ELSE /\ sel.feedbackIndex - 1 \in ready
                     /\ \A j \in ready :
                            m_queuedFeedback[j].m_renderFenceForFeedback
                               <= m_queuedFeedback[sel.feedbackIndex - 1].m_renderFenceForFeedback
                     /\ ~sel.queue[sel.feedbackIndex - 1].m_feedbackQueued)
    /\ [][ ~m_setZeroRefCounts =>
             \A completed \in { c \in CompletedFenceValues : ReadyFeedback(c) = {} } :
                 \A fb \in ResolvedFeedback(completed) :
                     ProcessFeedback(completed, fb)
                     => UNCHANGED << m_tileReferences, m_refcounts, m_pendingTileLoads,
                                     m_mappings, feedbackVars, m_tileResidencyChanged,
                                     m_resident, m_heapIndices, m_minMipMap >> ]_vars

\* two buffers were resolved and both were ready when a pass applied one: the buffer of
\* the later frame is consumed and its references are in force, the older one is not
\* the one that was applied and is still queued
C20_Witness ==
    /\ \E i \in DOMAIN m_queuedFeedback :
           /\ ~m_queuedFeedback[i].m_feedbackQueued
           /\ m_queuedFeedback[i].m_renderFenceForFeedback = 1
    /\ \E j \in DOMAIN m_queuedFeedback :
           /\ m_queuedFeedback[j].m_feedbackQueued
           /\ m_queuedFeedback[j].m_renderFenceForFeedback = 0
    /\ \E r \in Regions : m_tileReferences[r] # m_maxMip

\* ------------------------------------------------------------------------
\* properties of QueueTiles
\* ------------------------------------------------------------------------
\* the state QueueTiles leaves when it is called in the current state
QueueTilesResult ==
    QueueTilesLoop(QueueState, Len(GetReadyToEvict(m_mappings)), Len(m_pendingTileLoads))

\* the entries of a list of pending loads whose tile is NotResident or Evicting in qs
StillWanted(loads, qs) ==
    SelectSeq(loads, LAMBDA t : qs.resident[t] \in { "NotResident", "Evicting" })

\* C21: whatever the number of free heap pages, a QueueTiles call sets Loading at most as
\* many tiles as pages are free (those free at the call and those its own evictions
\* free), each with a valid page that no other tile holds and that has left the free
\* list; the pending loads it did not start (tiles still NotResident or Evicting) stay in
\* m_pendingTileLoads in their order; and the call leaves a NotResident tile pending only
\* when no page or no UpdateList is free, so that a later call starts it once pages have
\* been freed
C21_LoadsBoundedByFreePages ==
    LET pre == QueueState
        post == QueueTilesResult
        started == { t \in Tiles : pre.resident[t] # "Loading" /\ post.resident[t] = "Loading" }
        evicted == { t \in Tiles : pre.resident[t] = "Resident" /\ post.resident[t] = "Evicting" }
    IN  /\ Cardinality(started) <= GetNumFree(pre.heapFree) + Cardinality(evicted)
        /\ \A t \in started :
               /\ post.heapIndices[t] \in 0 .. HeapSizeTiles - 1
               /\ \A k \in 1 .. Len(post.heapFree) : post.heapFree[k] # post.heapIndices[t]
               /\ \A u \in Tiles \ { t } : post.heapIndices[u] # post.heapIndices[t]
        /\ StillWanted(post.loads, post) = StillWanted(pre.loads, post)
        /\ \/ \A k \in 1 .. Len(post.loads) : post.resident[post.loads[k]] # "NotResident"
           \/ GetNumFree(post.heapFree) = 0
           \/ post.freeCount = 0

\* the heap is full of tiles that are Loading or Resident and a wanted tile that is
\* NotResident is still pending, while an UpdateList is free
C21_Witness ==
    /\ GetNumFree(m_heapFree) = 0
    /\ \E k \in 1 .. Len(m_pendingTileLoads) :
           /\ m_resident[m_pendingTileLoads[k]] = "NotResident"
           /\ m_refcounts[m_pendingTileLoads[k]] > 0
    /\ Cardinality({ t \in Tiles : m_resident[t] \in { "Loading", "Resident" } }) = HeapSizeTiles
    /\ \E i \in DOMAIN m_updateLists : m_updateLists[i].m_executionState = "STATE_FREE"

\* the cycles of the while loop of QueueTiles called in state qs: for each cycle the state
\* before it, the UpdateList it got, the states after the eviction step and after the
\* load step, whether the list was submitted, and the state after the cycle
RECURSIVE QueueTilesCycles(_, _, _)
QueueTilesCycles(qs, numEvictions, numLoads) ==
    IF ~((numLoads > 0 /\ GetNumFree(qs.heapFree) > 0) \/ numEvictions > 0)
    THEN << >>
    ELSE LET a == AllocateUpdateList(qs)
             ul == a.pUpdateList
         IN  IF ul = nullptr
             THEN << [ before |-> qs, pUpdateList |-> nullptr, allocated |-> a.qs,
                       evicted |-> a.qs, loaded |-> a.qs, submitted |-> FALSE,
                       after |-> a.qs ] >>
             ELSE LET e == IF numEvictions > 0
                           THEN QueuePendingTileEvictions(a.qs, ul)
                           ELSE a.qs
                      numEvictions2 == IF numEvictions > 0
                                       THEN Len(GetReadyToEvict(e.mappings))
                                       ELSE numEvictions
                      doLoads == numLoads > 0 /\ GetNumFree(e.heapFree) > 0
                      l == IF doLoads THEN QueuePendingTileLoads(e, ul) ELSE e
                      numLoads2 == IF doLoads THEN Len(l.loads) ELSE numLoads
                      submit == \/ Len(l.lists[ul].m_coords) > 0
                                \/ Len(l.lists[ul].m_evictCoords) > 0
                      after == IF submit THEN SubmitUpdateList(l, ul)
                               ELSE FreeUpdateList(l, ul)
                      cycle == [ before |-> qs, pUpdateList |-> ul, allocated |-> a.qs,
                                 evicted |-> e, loaded |-> l, submitted |-> submit,
                                 after |-> after ]
                  IN  IF submit
                      THEN << cycle >> \o QueueTilesCycles(after, numEvictions2, numLoads2)
                      ELSE << cycle >>

Cycles ==
    QueueTilesCycles(QueueState, Len(GetReadyToEvict(m_mappings)), Len(m_pendingTileLoads))

\* QueueTiles has work to do: the condition of its while loop
WorkQueued ==
    \/ Len(m_pendingTileLoads) > 0 /\ GetNumFree(m_heapFree) > 0
    \/ Len(GetReadyToEvict(m_mappings)) > 0

\* C22: a cycle of QueueTiles in which AllocateUpdateList returns no list ends the call
\* and changes no residency, heap index, free page, pending load or eviction-delay entry
\* (QueueTiles never writes a reference count); the work stays queued, and a call made
\* when an UpdateList is free gets one
C22_NoUpdateListNoChange ==
    /\ [](/\ \A k \in 1 .. Len(Cycles) :
                Cycles[k].pUpdateList = nullptr
                   => /\ k = Len(Cycles)
                      /\ Cycles[k].after = Cycles[k].before
                      /\ QueueTilesResult = Cycles[k].before
          /\ (WorkQueued /\ m_updateListFreeCount = 0) => QueueTilesResult = QueueState
          /\ (WorkQueued /\ m_updateListFreeCount > 0) => Cycles[1].pUpdateList # nullptr)
    /\ [][QueueTiles => UNCHANGED << m_refcounts, m_tileReferences >>]_vars

\* every UpdateList is in flight while a wanted tile is NotResident and pending with a
\* free heap page: the call made in this state gets no UpdateList
C22_Witness ==
    /\ m_updateListFreeCount = 0
    /\ \A i \in DOMAIN m_updateLists : m_updateLists[i].m_executionState # "STATE_FREE"
    /\ GetNumFree(m_heapFree) > 0
    /\ \E k \in 1 .. Len(m_pendingTileLoads) :
           m_resident[m_pendingTileLoads[k]] = "NotResident"

\* the tiles of a sequence of coordinates
Range(coords) == { coords[j] : j \in 1 .. Len(coords) }

UnMapBeforeMap ==
    \A i \in Lists :
        /\ \A k \in 1 .. Len(m_mappingCommandQueue) :
               (/\ m_mappingCommandQueue[k].command = "Map"
                /\ m_mappingCommandQueue[k].list = i
                /\ GetNumEvictions(m_updateLists[i]) > 0)
                  => \/ "UnMap" \in executed[i]
                     \/ \E j \in 1 .. k - 1 :
                            /\ m_mappingCommandQueue[j].command = "UnMap"
                            /\ m_mappingCommandQueue[j].list = i
        /\ ("Map" \in executed[i] /\ GetNumEvictions(m_updateLists[i]) > 0)
              => "UnMap" \in executed[i]


\* ------------------------------------------------------------------------
\* properties of the min-mip map
\* ------------------------------------------------------------------------

\* C24: no residency change is lost to the min-mip map: every notification that writes
\* the residency of a tile is followed by SetResidencyChanged, and UpdateMinMipMap
\* clears m_tileResidencyChanged before it reads any residency, so whenever
\* UpdateMinMipMap is not running, no notification and no feedback pass is under way,
\* the flag is clear and no eviction is in flight, the map is the one UpdateMinMipMap
\* computes from the current residency, in whatever order the notifications arrived
C24_NoResidencyChangeLost ==
    /\ []((/\ mapper.pc = "idle"
           /\ monitor.pc = "scan"
           /\ allocator[1].pc = "idle"
           /\ ~m_tileResidencyChanged
           /\ \A t \in Tiles : m_resident[t] # "Evicting")
          => m_minMipMap = MinMipMapNow)
    /\ [][monitor.pc = "notify" /\ monitor'.pc = "scan" => m_tileResidencyChanged']_vars

\* a notification that arrived after UpdateMinMipMap cleared the flag and read the
\* residency: the map about to be published is stale and the flag is set again
C24_Witness ==
    /\ mapper.pc = "copy"
    /\ monitor.pc = "scan"
    /\ allocator[1].pc = "idle"
    /\ GetAnyRefCount
    /\ m_tileResidencyChanged
    /\ \A t \in Tiles : m_resident[t] # "Evicting"
    /\ \E r \in Regions : MinMipMapNow[r] < m_minMipMap[r]

\* the smallest m such that every tile (x >> k, y >> k, k) with k in m .. M - 1 is
\* Resident; it is M when the tile of the coarsest standard mip is not
ChainMinMip(r) ==
    CHOOSE m \in 0 .. m_maxMip :
        /\ \A k \in m .. m_maxMip - 1 : GetResident(Shr(r[1], k), Shr(r[2], k), k)
        /\ \A n \in 0 .. m - 1 :
               \E k \in n .. m_maxMip - 1 : ~GetResident(Shr(r[1], k), Shr(r[2], k), k)

\* C25: the min-mip map changes only in a step that finds m_tileResidencyChanged set;
\* UpdateMinMipMap then writes, for every region, M when no tile has a reference
\* count, and otherwise the smallest m whose chain of tiles from m to M - 1 is
\* Resident (M if the coarsest tile is not), whatever the map held before
C25_MinMipMapFromResidency ==
    /\ [][m_minMipMap' # m_minMipMap => m_tileResidencyChanged /\ UpdateMinMipMap]_vars
    /\ [][UpdateMinMipMap =>
             m_minMipMap' = [ r \in Regions |->
                                IF \E t \in Tiles : m_refcounts[t] # 0
                                THEN ChainMinMip(r)
                                ELSE m_maxMip ]]_vars

\* after UpdateMinMipMap: one region has its whole chain Resident, the other only the
\* tile of the coarsest mip
C25_Witness ==
    /\ ~m_tileResidencyChanged
    /\ \E t \in Tiles : m_refcounts[t] # 0
    /\ \A t \in Tiles : m_resident[t] \in { "Resident", "NotResident" }
    /\ m_minMipMap = [ r \in Regions |-> ChainMinMip(r) ]
    /\ \E r \in Regions : m_minMipMap[r] = 0
    /\ \E r \in Regions : m_minMipMap[r] = m_maxMip - 1

\* ------------------------------------------------------------------------
\* properties of the eviction delay
\* ------------------------------------------------------------------------

\* C26: NextFrame moves the entries of every bucket one bucket towards the oldest,
\* the new oldest bucket holds the entries of the bucket before it followed by those
\* of the previous oldest bucket, and bucket 0 is left empty; so the entries of the
\* ready-to-evict bucket were appended at least NumSwapBuffers calls of NextFrame
\* ago, and an entry leaves that bucket only when QueueTiles consumes it or when
\* Rescue finds its tile with a reference count
C26_NextFrameRotates ==
    /\ [][NextFrame =>
             LET F == Len(m_mappings)
             IN  /\ Len(m_mappings') = F
                 /\ m_mappings'[1] = << >>
                 /\ \A i \in 2 .. F - 1 : m_mappings'[i] = m_mappings[i - 1]
                 /\ m_mappings'[F] = m_mappings[F - 1] \o m_mappings[F]]_vars
    /\ [](\A i \in 1 .. Len(m_mappings) : \A t \in Range(m_mappings[i]) :
              framesSinceAppend[t] >= i - 1)
    /\ [][\A t \in Range(GetReadyToEvict(m_mappings)) :
              t \notin Range(GetReadyToEvict(m_mappings'))
                 => QueueTiles \/ m_refcounts'[t] > 0]_vars

\* after NextFrame the oldest bucket holds several entries, one of them of a tile
\* that is Loading and therefore stays in the bucket
C26_Witness ==
    /\ m_mappings[1] = << >>
    /\ Len(GetReadyToEvict(m_mappings)) >= 2
    /\ \E t \in Range(GetReadyToEvict(m_mappings)) : m_resident[t] = "Loading"
    /\ \A t \in Range(GetReadyToEvict(m_mappings)) : framesSinceAppend[t] >= NumSwapBuffers

\* ------------------------------------------------------------------------
\* properties of SetMinMip
\* ------------------------------------------------------------------------
\* the tiles of region r from mip c - 1 down to mip d, and from mip c up to mip d - 1
ChainDown(r, c, d) ==
    [ i \in 1 .. c - d |-> Coord(Shr(r[1], c - i), Shr(r[2], c - i), c - i) ]
ChainUp(r, c, d) ==
    [ i \in 1 .. d - c |-> Coord(Shr(r[1], c + i - 1), Shr(r[2], c + i - 1), c + i - 1) ]

\* the entries of coords whose tile has the reference count n
WithRefCount(coords, n) ==
    LET Test(t) == m_refcounts[t] = n
    IN  SelectSeq(coords, Test)

\* C27: for a region with the reference c and a desired mip d, SetMinMip with d < c
\* increments the tiles of mips c - 1 down to d and appends those that had the count 0
\* to the pending loads, coarsest first; with d > c it decrements the tiles of mips c
\* up to d - 1 and appends those that reach 0 to bucket 0 of the eviction delay,
\* finest first; the feedback pass then stores d as the reference of the region
C27_SetMinMipOrder ==
    /\ \A r \in Regions : \A d \in 0 .. m_maxMip :
          LET c == m_tileReferences[r]
              fs == SetMinMip(PassState, c, r[1], r[2], d)
              down == ChainDown(r, c, d)
              up == ChainUp(r, c, d)
          IN  IF d < c
              THEN /\ fs.refcounts = [ t \in Tiles |->
                          m_refcounts[t] + IF t \in Range(down) THEN 1 ELSE 0 ]
                   /\ fs.loads = m_pendingTileLoads \o WithRefCount(down, 0)
                   /\ fs.mappings = m_mappings
              ELSE /\ fs.refcounts = [ t \in Tiles |->
                          m_refcounts[t] - IF t \in Range(up) THEN 1 ELSE 0 ]
                   /\ fs.mappings = [ m_mappings EXCEPT ![1] = @ \o WithRefCount(up, 1) ]
                   /\ fs.loads = m_pendingTileLoads
    /\ \A pResolvedData \in FeedbackBuffers :
          ApplyFeedback(PassState, pResolvedData, 1).references =
              [ r \in Regions |-> Min(pResolvedData[r], m_maxMip) ]

\* a feedback pass moved a region from mip 0 to M: its tiles reached the count 0 and
\* were appended to bucket 0, finest first
C27_Witness ==
    /\ m_mappings[1] = << Coord(0, 0, 0), Coord(0, 0, NumStandardMips - 1) >>
    /\ m_tileReferences[<< 0, 0 >>] = m_maxMip
    /\ \A t \in Tiles : m_refcounts[t] = 0
    /\ ~m_refCountsZero

\* the entries of coords whose tile has the residency r in the state qs
WithResidency(coords, qs, r) ==
    LET Test(t) == qs.resident[t] = r
    IN  SelectSeq(coords, Test)

\* C28: QueuePendingTileEvictions works on the oldest bucket only: a Resident tile is
\* set Evicting, its page is returned to the heap, its heap index is reset and it is
\* put on the evict list; the entry of a Loading tile stays in the bucket; the entry
\* of a NotResident or Evicting tile is dropped; the other buckets, the other tiles
\* and the pending loads are as before
C28_EvictOldestBucketOnly ==
    \A n \in 1 .. Len(Cycles) :
        LET c == Cycles[n]
            pre == c.allocated
            post == c.evicted
            ul == c.pUpdateList
            last == Len(pre.mappings)
            ready == GetReadyToEvict(pre.mappings)
            evicted == { t \in Range(ready) : pre.resident[t] = "Resident" }
        IN  (ul # nullptr /\ ready # << >>) =>
            /\ \A t \in evicted :
                   /\ post.resident[t] = "Evicting"
                   /\ post.heapIndices[t] = InvalidIndex
                   /\ \E k \in 1 .. Len(post.heapFree) : post.heapFree[k] = pre.heapIndices[t]
                   /\ \E k \in 1 .. Len(post.lists[ul].m_evictCoords) :
                          post.lists[ul].m_evictCoords[k] = t
            /\ Range(post.lists[ul].m_evictCoords) = evicted
            /\ GetNumFree(post.heapFree) = GetNumFree(pre.heapFree) + Cardinality(evicted)
            /\ \A t \in Tiles \ evicted :
                   /\ post.resident[t] = pre.resident[t]
                   /\ post.heapIndices[t] = pre.heapIndices[t]
            /\ GetReadyToEvict(post.mappings) = WithResidency(ready, pre, "Loading")
            /\ \A i \in 1 .. last - 1 : post.mappings[i] = pre.mappings[i]
            /\ post.loads = pre.loads
            /\ post.lists[ul].m_coords = pre.lists[ul].m_coords

\* QueueTiles finds in the oldest bucket a Resident tile and a Loading tile
C28_Witness ==
    /\ m_updateListFreeCount > 0
    /\ \E t \in Range(GetReadyToEvict(m_mappings)) : m_resident[t] = "Resident"
    /\ \E t \in Range(GetReadyToEvict(m_mappings)) : m_resident[t] = "Loading"

\* maxCopies of QueuePendingTileLoads in the state qs
MaxCopies(qs) == Min(Min(Len(qs.loads), MaxTileCopiesPerBatch), GetNumFree(qs.heapFree))

\* the cycles of QueueTiles whose load step ran
LoadCycles ==
    { n \in 1 .. Len(Cycles) :
        /\ Cycles[n].pUpdateList # nullptr
        /\ Cycles[n].evicted.loads # << >>
        /\ GetNumFree(Cycles[n].evicted.heapFree) > 0 }

\* C29 as stated: QueuePendingTileLoads examines at most min(pending length, maximum
\* per batch, free pages) entries of the pending loads
C29_ExaminesAtMostMaxCopies ==
    \A n \in LoadCycles :
        NumConsumed(Cycles[n].evicted, 1, 0, MaxCopies(Cycles[n].evicted))
            <= MaxCopies(Cycles[n].evicted)

\* C29: QueuePendingTileLoads records at most min(pending length, maximum per batch,
\* free pages) loads; it examines the pending loads from the front until that many
\* loads are recorded or the list ends. An examined entry that is NotResident is set
\* Loading with a page taken off the free list and recorded in the UpdateList; one
\* that is Evicting is retained at the front; one that is Resident or Loading is
\* dropped; the entries not examined are retained behind them. No pending load whose
\* tile is NotResident or Evicting afterwards is lost
C29_LoadsUpToMaxCopies ==
    \A n \in LoadCycles :
        LET pre == Cycles[n].evicted
            post == Cycles[n].loaded
            ul == Cycles[n].pUpdateList
            numConsumed == NumConsumed(pre, 1, 0, MaxCopies(pre))
            examined == SubSeq(pre.loads, 1, numConsumed)
            loaded == { t \in Range(examined) : pre.resident[t] = "NotResident" }
        IN  /\ Cardinality(loaded) <= MaxCopies(pre)
            /\ numConsumed = Len(pre.loads) \/ Cardinality(loaded) = MaxCopies(pre)
            /\ \A t \in loaded :
                   /\ post.resident[t] = "Loading"
                   /\ post.heapIndices[t] \in 0 .. HeapSizeTiles - 1
                   /\ \E k \in 1 .. Len(pre.heapFree) : pre.heapFree[k] = post.heapIndices[t]
                   /\ \A k \in 1 .. Len(post.heapFree) : post.heapFree[k] # post.heapIndices[t]
                   /\ \A u \in loaded \ { t } : post.heapIndices[u] # post.heapIndices[t]
                   /\ \E k \in 1 .. Len(post.lists[ul].m_coords) :
                          post.lists[ul].m_coords[k] = t
            /\ Len(post.lists[ul].m_coords) = Cardinality(loaded)
            /\ \A t \in Tiles \ loaded :
                   /\ post.resident[t] = pre.resident[t]
                   /\ post.heapIndices[t] = pre.heapIndices[t]
            /\ post.loads = WithResidency(examined, pre, "Evicting")
                              \o SubSeq(pre.loads, numConsumed + 1, Len(pre.loads))
            /\ \A t \in Range(pre.loads) :
                   post.resident[t] \in { "NotResident", "Evicting" }
                      => t \in Range(post.loads)
            /\ post.mappings = pre.mappings
            /\ post.lists[ul].m_evictCoords = pre.lists[ul].m_evictCoords

\* the pending loads start with a tile that is Evicting, followed by a tile that is
\* NotResident, and one load can be made: two entries are examined
C29_Witness ==
    /\ m_updateListFreeCount > 0
    /\ GetReadyToEvict(m_mappings) = << >>
    /\ GetNumFree(m_heapFree) > 0
    /\ Len(m_pendingTileLoads) >= 2
    /\ m_resident[m_pendingTileLoads[1]] = "Evicting"
    /\ m_resident[m_pendingTileLoads[2]] = "NotResident"

\* an UpdateList carries neither evictions nor loads
IsEmptyUpdateList(u) == u.m_coords = << >> /\ u.m_evictCoords = << >>

\* C30: QueueTiles never submits an UpdateList that carries neither evictions nor
\* loads: no UpdateList that left the state Allocated is empty, QueueTiles leaves no
\* UpdateList in the state Allocated, a cycle that leaves its UpdateList empty frees it
\* (the free count is what it was before the allocation) and is the last cycle, and
\* every cycle with a non-empty UpdateList submits it
C30_NoEmptyUpdateListSubmitted ==
    /\ \A i \in DOMAIN m_updateLists :
           m_updateLists[i].m_executionState \notin { "STATE_FREE", "STATE_ALLOCATED" }
              => ~IsEmptyUpdateList(m_updateLists[i])
    /\ \A i \in DOMAIN m_updateLists :
           QueueTilesResult.lists[i].m_executionState # "STATE_ALLOCATED"
    /\ Cycles # << >> => Cycles[Len(Cycles)].after = QueueTilesResult
    /\ \A n \in 1 .. Len(Cycles) :
           LET c == Cycles[n]
               ul == c.pUpdateList
           IN  ul # nullptr =>
               IF IsEmptyUpdateList(c.loaded.lists[ul])
               THEN /\ c.after.lists[ul].m_executionState = "STATE_FREE"
                    /\ c.after.freeCount = c.before.freeCount
                    /\ c.after.submitFlag = c.before.submitFlag
                    /\ n = Len(Cycles)
               ELSE /\ c.after.lists[ul].m_executionState = "STATE_SUBMITTED"
                    /\ c.after.submitFlag

\* an UpdateList was submitted, and the next call of QueueTiles ends with a cycle
\* that leaves its UpdateList empty and frees it
C30_Witness ==
    /\ Cycles # << >>
    /\ Cycles[Len(Cycles)].pUpdateList # nullptr
    /\ ~Cycles[Len(Cycles)].submitted
    /\ \E i \in DOMAIN m_updateLists : m_updateLists[i].m_executionState = "STATE_SUBMITTED"

\* ------------------------------------------------------------------------
\* properties of the reference counts
\* ------------------------------------------------------------------------
\* the tile of the next coarser mip that covers the tile t
Coarser(t) == Coord(Shr(t[1], 1), Shr(t[2], 1), t[3] + 1)

\* C31: GetAnyRefCount, which scans the coarsest standard mip only, is true exactly
\* when some tile of any mip has a reference count; the reference count of a tile is
\* at most the reference count of the coarser tile that covers it
C31_AnyRefCountFromCoarsest ==
    /\ GetAnyRefCount <=> \E t \in Tiles : m_refcounts[t] > 0
    /\ \A t \in Tiles :
           t[3] < NumStandardMips - 1 => m_refcounts[t] <= m_refcounts[Coarser(t)]

\* both regions reference the coarsest tile and one of them a tile of mip 0
C31_Witness ==
    /\ m_refcounts[Coord(0, 0, NumStandardMips - 1)] = 2
    /\ m_refcounts[Coord(0, 0, 0)] = 1
    /\ m_refcounts[Coord(1, 0, 0)] = 0

\* the regions the tile t covers whose reference in references is a mip <= that of t
ReferencingRegions(t, references) ==
    { r \in Regions : /\ Shr(r[1], t[3]) = t[1]
                      /\ Shr(r[2], t[3]) = t[2]
                      /\ references[r] <= t[3] }

\* C33: the reference count of a tile is the number of regions it covers whose
\* m_tileReferences value is at most the mip of the tile, in every reachable state
\* and after the feedback loop for every feedback buffer; DecTileRef is only called
\* for a tile whose reference count is above 0, and no reference count is below 0
C33_RefCountCountsRegions ==
    /\ \A t \in Tiles :
           /\ m_refcounts[t] = Cardinality(ReferencingRegions(t, m_tileReferences))
           /\ m_refcounts[t] >= 0
    /\ \A pResolvedData \in FeedbackBuffers :
           LET fs == ApplyFeedback(PassState, pResolvedData, 1)
           IN  \A t \in Tiles :
                   fs.refcounts[t] = Cardinality(ReferencingRegions(t, fs.references))
    /\ \A r \in Regions : \A d \in 0 .. m_maxMip :
           \A t \in Range(ChainUp(r, m_tileReferences[r], d)) : m_refcounts[t] >= 1
    /\ LET fs == ZeroRefCounts(PassState, 1)
       IN  \A t \in Tiles : fs.refcounts[t] = 0

\* the evict-all path has zeroed reference counts: the tiles that had one are in the
\* eviction delay and every region references M
C33_Witness ==
    /\ m_refCountsZero
    /\ ~m_setZeroRefCounts
    /\ Len(m_mappings[1]) >= 2
    /\ \A t \in Tiles : m_refcounts[t] = 0
    /\ \A r \in Regions : m_tileReferences[r] = m_maxMip

\* ------------------------------------------------------------------------
\* properties of the packed mips
\* ------------------------------------------------------------------------

\* C32: the packed mip status only moves forward; the pages reserved by an attempt
\* that failed are kept and later attempts add to them until the resource holds
\* exactly NumTilesForPackedMips pages, which are distinct and not free; the packed
\* UpdateList is submitted once, and once it has been freed and InitPackedMips has
\* returned, GetPackedMipsNeedTransition returns true or has returned true once
C32_PackedMipsForward ==
    /\ [][/\ StatusValue(packed'.status) >= StatusValue(packed.status)
          /\ Len(packed'.heapIndices) >= Len(packed.heapIndices)
          /\ SubSeq(packed'.heapIndices, 1, Len(packed.heapIndices)) = packed.heapIndices
          /\ InitPackedMips /\ packed.status = "UNINITIALIZED"
                => LET missing == packed.numTiles - Len(packed.heapIndices)
                       taken == IF GetNumFree(m_heapFree) < missing
                                THEN GetNumFree(m_heapFree) ELSE missing
                   IN  /\ Len(packed'.heapIndices) = Len(packed.heapIndices) + taken
                       /\ GetNumFree(m_heapFree') = GetNumFree(m_heapFree) - taken]_vars
    /\ [](/\ Len(packed.heapIndices) <= packed.numTiles
          /\ StatusValue(packed.status) >= StatusValue("HEAP_RESERVED")
                => Len(packed.heapIndices) = packed.numTiles
          /\ \A j, k \in 1 .. Len(packed.heapIndices) :
                 j # k => packed.heapIndices[j] # packed.heapIndices[k]
          /\ \A j \in 1 .. Len(packed.heapIndices) : \A k \in 1 .. Len(m_heapFree) :
                 packed.heapIndices[j] # m_heapFree[k]
          /\ packed.requested <= 1
          /\ packed.transitions <= 1
          /\ packed.pc = "idle" =>
                 packed.requested =
                     (IF StatusValue(packed.status) >= StatusValue("REQUESTED") THEN 1 ELSE 0)
          /\ packed.transitions = 1 <=> packed.status = "RESIDENT"
          /\ PackedUpdateLists # { } => packed.requested = 1
          /\ packed.pc = "idle" /\ packed.requested = 1 /\ PackedUpdateLists = { }
                => packed.status \in { "NEEDS_TRANSITION", "RESIDENT" })

\* ------------------------------------------------------------------------
\* properties of the order of the feedback applied
\* ------------------------------------------------------------------------

\* C34: a ProcessFeedback call that consumes a queued feedback buffer leaves queued
\* no buffer older than one it consumed, whatever the slots of the buffers: such a
\* buffer is ready, a later call would apply it, and the fence values of the buffers
\* applied would decrease
C34_NoStaleFeedbackLeftQueued ==
    [][\A i, j \in DOMAIN m_queuedFeedback :
          /\ m_queuedFeedback[i].m_feedbackQueued
          /\ ~m_queuedFeedback'[i].m_feedbackQueued
          /\ m_queuedFeedback[j].m_feedbackQueued
          /\ m_queuedFeedback'[j].m_feedbackQueued
          => m_queuedFeedback[j].m_renderFenceForFeedback
                >= m_queuedFeedback[i].m_renderFenceForFeedback]_vars

\* ------------------------------------------------------------------------
\* properties of the UpdateList pool with concurrent allocators
\* ------------------------------------------------------------------------

\* C35: with concurrent callers of AllocateUpdateList, m_updateListFreeCount never
\* underflows and never exceeds the size of the pool, and whenever no caller is
\* inside AllocateUpdateList or FreeUpdateList it is the number of UpdateLists in
\* STATE_FREE; a call that returned no list has therefore left it unchanged
C35_FreeCountWithConcurrentAllocators ==
    /\ [](m_updateListFreeCount \in 0 .. NumStreamingBatches)
    /\ [](( \A a \in Allocators : allocator[a].pc \in { "idle", "allocated", "set" })
            => m_updateListFreeCount =
                  Cardinality({ i \in Lists : m_updateLists[i].m_executionState = "STATE_FREE" }))

\* ------------------------------------------------------------------------
\* properties of the heap pages
\* ------------------------------------------------------------------------

\* a variant of FreeHeapAllocations that frees the pages and keeps the heap indices
RECURSIVE FreeHeapAllocationsKeepIndices(_, _, _)
FreeHeapAllocationsKeepIndices(heapIndices, heapFree, k) ==
    IF k > Len(TilesFromMip(0)) THEN [ heapIndices |-> heapIndices, heapFree |-> heapFree ]
    ELSE IF heapIndices[TilesFromMip(0)[k]] # InvalidIndex
    THEN FreeHeapAllocationsKeepIndices(heapIndices,
                                        HeapFree(heapFree, heapIndices[TilesFromMip(0)[k]]), k + 1)
    ELSE FreeHeapAllocationsKeepIndices(heapIndices, heapFree, k + 1)

\* FreeHeapAllocations: the loops over layer, row and tile; k is the position in the
\* sequence of the tiles
RECURSIVE FreeHeapAllocations(_, _, _)
FreeHeapAllocations(heapIndices, heapFree, k) ==
    IF k > Len(TilesFromMip(0)) THEN [ heapIndices |-> heapIndices, heapFree |-> heapFree ]
    ELSE IF heapIndices[TilesFromMip(0)[k]] # InvalidIndex
    THEN FreeHeapAllocations([ heapIndices EXCEPT ![TilesFromMip(0)[k]] = InvalidIndex ],
                             HeapFree(heapFree, heapIndices[TilesFromMip(0)[k]]), k + 1)
    ELSE FreeHeapAllocations(heapIndices, heapFree, k + 1)

\* the destructor, called in the current state: the heap indices of the tiles, the
\* packed mip heap indices and the free list of the heap it leaves
Destructor ==
    LET f == FreeHeapAllocations(m_heapIndices, m_heapFree, 1)
    IN  [ heapIndices |-> f.heapIndices,
          packedMipHeapIndices |-> packed.heapIndices,
          heapFree |-> f.heapFree \o packed.heapIndices ]

\* how many holders the page has: tiles, the packed mips, the free list of the heap
Holders(page, heapIndices, packedMipHeapIndices, heapFree) ==
    Cardinality({ t \in Tiles : heapIndices[t] = page })
    + Cardinality({ k \in 1 .. Len(packedMipHeapIndices) : packedMipHeapIndices[k] = page })
    + Cardinality({ k \in 1 .. Len(heapFree) : heapFree[k] = page })

\* C36: every page of the heap is free or held by exactly one tile or by the packed
\* mips, never by two holders; a tile that holds a page is Resident or Loading; the
\* destructor leaves every page of the resource on the free list exactly once and no
\* tile with a heap index, so that no page can be freed again
C36_HeapPagesConserved ==
    LET d == Destructor
    IN  /\ \A page \in 0 .. HeapSizeTiles - 1 :
               Holders(page, m_heapIndices, packed.heapIndices, m_heapFree) = 1
        /\ \A t \in Tiles :
               m_heapIndices[t] # InvalidIndex =>
                   /\ m_heapIndices[t] \in 0 .. HeapSizeTiles - 1
                   /\ m_resident[t] \in { "Resident", "Loading" }
        /\ \A t \in Tiles : d.heapIndices[t] = InvalidIndex
        /\ \A page \in 0 .. HeapSizeTiles - 1 :
               Holders(page, d.heapIndices, << >>, d.heapFree) = 1

\* every page of the heap is held by a tile, one Resident and one Loading, and another
\* tile, which was evicted, has given its page back
C36_Witness ==
    /\ GetNumFree(m_heapFree) = 0
    /\ \E t \in Tiles : m_resident[t] = "Resident" /\ m_heapIndices[t] # InvalidIndex
    /\ \E t \in Tiles : m_resident[t] = "Loading" /\ m_heapIndices[t] # InvalidIndex
    /\ \E t \in Tiles : m_resident[t] = "Evicting"

\* ------------------------------------------------------------------------
\* properties of the order of the mapping commands
\* ------------------------------------------------------------------------

\* a variant of MappingCommands that walks m_updateLists from the last to the first
RECURSIVE MappingCommandsBackward(_, _)
MappingCommandsBackward(lists, i) ==
    IF i >= NumStreamingBatches THEN << >>
    ELSE LET u == lists[i]
         IN  MappingCommandsBackward(lists, i + 1)
             \o (IF u.m_executionState = "STATE_SUBMITTED" /\ GetNumEvictions(u) > 0
                 THEN << [ command |-> "UnMap", list |-> i, value |-> 0 ] >> ELSE << >>)
             \o (IF u.m_executionState = "STATE_SUBMITTED" /\ GetNumStandardUpdates(u) > 0
                 THEN << [ command |-> "Map", list |-> i, value |-> 0 ] >> ELSE << >>)

\* the UnMap and Map commands one run of SubmitThread over m_updateLists issues, in
\* the order in which it issues them
RECURSIVE MappingCommands(_, _)
MappingCommands(lists, i) ==
    IF i >= NumStreamingBatches THEN << >>
    ELSE LET u == lists[i]
         IN  (IF u.m_executionState = "STATE_SUBMITTED" /\ GetNumEvictions(u) > 0
              THEN << [ command |-> "UnMap", list |-> i, value |-> 0 ] >> ELSE << >>)
             \o (IF u.m_executionState = "STATE_SUBMITTED" /\ GetNumStandardUpdates(u) > 0
                 THEN << [ command |-> "Map", list |-> i, value |-> 0 ] >> ELSE << >>)
             \o MappingCommands(lists, i + 1)

\* the command of the list comes before the other command of the other list
IssuedBefore(commands, command, list, otherCommand, otherList) ==
    \E j, k \in 1 .. Len(commands) :
        /\ j < k
        /\ commands[j].command = command /\ commands[j].list = list
        /\ commands[k].command = otherCommand /\ commands[k].list = otherList

\* the tiles of a sequence of coordinates
TilesIn(coords) == { coords[k] : k \in 1 .. Len(coords) }

NotificationsOf(u) ==
    (IF GetNumEvictions(u) > 0 THEN { "NotifyEvicted" } ELSE { })
    \cup (IF GetNumStandardUpdates(u) > 0 THEN { "NotifyCopyComplete" } ELSE { })
    \cup (IF GetNumPackedUpdates(u) > 0 THEN { "NotifyPackedMips" } ELSE { })

FeedbackSettled ==
    /\ ~m_setZeroRefCounts
    /\ \A i \in DOMAIN m_queuedFeedback : ~m_queuedFeedback[i].m_feedbackQueued

\* the heap has a page for every tile that is referenced
HeapSuffices == Cardinality({ t \in Tiles : m_refcounts[t] > 0 }) <= HeapSizeTiles

\* the mapping fence values of the model suffice for the UpdateLists submitted
MappingFenceSuffices ==
    (\E i \in DOMAIN m_updateLists : m_updateLists[i].m_executionState = "STATE_SUBMITTED")
        => m_mappingFenceValue < MaxMappingFence

\* the residency has reached what the reference counts ask for and nothing is in
\* flight
ResidencyConverged ==
    /\ \A t \in Tiles : IF m_refcounts[t] > 0 THEN m_resident[t] = "Resident"
                                              ELSE m_resident[t] = "NotResident"
    /\ m_pendingTileLoads = << >>
    /\ \A b \in DOMAIN m_mappings : m_mappings[b] = << >>
    /\ \A i \in DOMAIN m_updateLists : m_updateLists[i].m_executionState = "STATE_FREE"

\* what the residency does converge to: a pending load that is left is for a tile
\* that is Resident (QueueTiles calls QueuePendingTileLoads, which drops it, only
\* while the heap has a free page), and the min mip map of a region is the finest
\* mip down to which the tiles covering the region are resident, at most the mip the
\* region refers to
ConvergedUpToStaleLoads ==
    /\ \A t \in Tiles : IF m_refcounts[t] > 0 THEN m_resident[t] = "Resident"
                                              ELSE m_resident[t] = "NotResident"
    /\ \A k \in DOMAIN m_pendingTileLoads : m_resident[m_pendingTileLoads[k]] = "Resident"
    /\ \A b \in DOMAIN m_mappings : m_mappings[b] = << >>
    /\ \A i \in DOMAIN m_updateLists : m_updateLists[i].m_executionState = "STATE_FREE"
    /\ \A r \in Regions :
           /\ m_minMipMap[r] = MinMipWalk(r[1], r[2], m_maxMip, m_maxMip)
           /\ m_minMipMap[r] <= m_tileReferences[r]

ConvergenceUpToStaleLoads ==
    ([]MappingFenceSuffices /\ <>[](FeedbackSettled /\ HeapSuffices))
        => <>[]ConvergedUpToStaleLoads

\* C39: under fair scheduling, if from some time on no feedback is queued, no
\* eviction of all tiles is requested and the heap has a page for every referenced
\* tile, then from some time on every referenced tile is Resident, every other tile
\* NotResident, no load and no eviction is pending and every UpdateList is free
\* (the min mip map, which follows the residency and not the references, is left to
\* ConvergenceUpToStaleLoads)
C39_Convergence ==
    ([]MappingFenceSuffices /\ <>[](FeedbackSettled /\ HeapSuffices))
        => <>[]ResidencyConverged

====
